---- MODULE Spec2Model ----
(***************************************************************************)
(* The event loop engine of the Unix core (src/unix/core.c and             *)
(* src/unix/linux-core.c): uv_run and its phases, the two-phase close      *)
(* protocol (uv_close, uv__make_close_pending, uv__run_closing_handles,    *)
(* uv__finish_close), uv_backend_timeout and the outer shape of            *)
(* uv__io_poll.  The io watcher table (uv__io_init, uv__io_start,          *)
(* uv__io_stop, uv__io_close, maybe_resize, the flush and the dispatch of  *)
(* uv__io_poll with event masks) is the second machine, on the variable    *)
(* io, with the specification SpecIo.                                      *)
(* SpecTcp is uv_run on a loop whose handles are all streams, so that the  *)
(* pending queue holds several watchers at once.                           *)
(* SpecSig is uv_run on a loop with a stream and a signal handle, SpecFree  *)
(* is SpecTcp with a user that releases a handle in its close_cb.          *)
(* next_power_of_two and uv_translate_sys_error are applied to drawn       *)
(* inputs under SpecPow2 and SpecErr; the descriptor helpers (uv__socket,  *)
(* uv__accept, uv__open_cloexec, uv__dup2_cloexec) are the machine on the  *)
(* variable fdst, SpecFd; the wait loop of uv__io_poll with its timeout    *)
(* budget is the machine on the variable wait, SpecWait.                   *)
(* SpecPollErr adds to it the registrations of the flush and the failures  *)
(* of epoll_ctl and epoll_pwait, SpecClock the clock behind loop->time.    *)
(* SpecBoth and SpecEntry put a loop driver and the watcher table under    *)
(* one specification.                                                      *)
(*                                                                         *)
(* The whole program state is the record World; every operation is a       *)
(* function from World to World, so that an operation that calls others    *)
(* (uv_close calls the close hook and uv__make_close_pending) is one       *)
(* composition.  uv_run is cut where it calls into user code: a callback   *)
(* is the stretch between an invoking step (run.cb becomes the phase's     *)
(* name) and CbReturn, and in that stretch the user's API calls happen.    *)
(* An assertion that fails ends the process: abort names the assertion and *)
(* no step follows.                                                        *)
(***************************************************************************)
EXTENDS Integers, Sequences, FiniteSets, TLC

VARIABLES loop, hs, run, gh, abort, io, calc, fdst, wait

vars == <<loop, hs, run, gh, abort, io, calc, fdst, wait>>

\* ---------------------------------------------------------------- bounds
NumHandles == 2
MaxAdvance == 1
MaxDelay == 1
MaxReqs == 1
MaxTrapped == 1
EventsSize == 2
PollCount == 2
NumWatchers == 2
MaxVal == 600
MaxErrno == 40
MaxFd == 2
MaxFdNum == 3
MaxTimeout == 3
MaxStep == 2
MaxTime == 8
MaxBatch == 2

\* ------------------------------------------------------------- constants
NULL == 0
STDERR_FILENO == 2
EBADF == 9
EINVAL == 22
EMFILE == 24
ENOTTY == 25
ENOSYS == 38
SIGW == 0

Handles == 1..NumHandles

UV_RUN_DEFAULT == "UV_RUN_DEFAULT"
UV_RUN_ONCE == "UV_RUN_ONCE"
UV_RUN_NOWAIT == "UV_RUN_NOWAIT"
Modes == {UV_RUN_DEFAULT, UV_RUN_ONCE, UV_RUN_NOWAIT}

LoopWatcherKinds == {"UV_IDLE", "UV_PREPARE", "UV_CHECK"}

\* The kinds handle h can be initialized as.
KindChoices(h) ==
  IF h % 2 = 1 THEN {"UV_TIMER", "UV_IDLE", "UV_PREPARE"}
  ELSE {"UV_TCP", "UV_CHECK", "UV_SIGNAL"}

\* close_cb values: no callback, or the user's callback.
CB == "cb"
NOCB == "null"

\* ------------------------------------------------------- sequence helpers
Without(s, x) == SelectSeq(s, LAMBDA y : y # x)

Has(s, x) == \E i \in 1..Len(s) : s[i] = x

Pos(s, x) == CHOOSE i \in 1..Len(s) : s[i] = x

IsPrefix(s, t) == Len(s) <= Len(t) /\ SubSeq(t, 1, Len(s)) = s

Last(s) == s[Len(s)]

\* ----------------------------------------------------------------- world
World == [loop |-> loop, hs |-> hs, run |-> run, gh |-> gh, abort |-> abort]

Apply(w) ==
  /\ loop' = w.loop
  /\ hs' = w.hs
  /\ run' = w.run
  /\ gh' = w.gh
  /\ abort' = w.abort
  /\ UNCHANGED <<io, calc, fdst, wait>>

Running == abort = "none"

Fail(w, what) == [w EXCEPT !.abort = IF @ = "none" THEN what ELSE @]

\* ---------------------------------------------------------- handle flags
uv__is_closing(w, h) ==
  w.hs[h].flags \cap {"CLOSING", "CLOSED"} # {}

uv__is_active(w, h) == "ACTIVE" \in w.hs[h].flags

uv__has_active_handles(w) == w.loop.active_handles > 0

uv__has_active_reqs(w) == w.loop.active_reqs > 0

uv__handle_start(w, h) ==
  IF "ACTIVE" \in w.hs[h].flags THEN w
  ELSE [w EXCEPT !.hs[h].flags = @ \cup {"ACTIVE"},
                 !.loop.active_handles =
                    IF "REF" \in w.hs[h].flags THEN @ + 1 ELSE @]

uv__handle_stop(w, h) ==
  IF "ACTIVE" \notin w.hs[h].flags THEN w
  ELSE [w EXCEPT !.hs[h].flags = @ \ {"ACTIVE"},
                 !.loop.active_handles =
                    IF "REF" \in w.hs[h].flags THEN @ - 1 ELSE @]

uv__handle_unref(w, h) ==
  IF "REF" \notin w.hs[h].flags THEN w
  ELSE [w EXCEPT !.hs[h].flags = @ \ {"REF"},
                 !.loop.active_handles =
                    IF "ACTIVE" \in w.hs[h].flags THEN @ - 1 ELSE @]

\* ------------------------------------------------------------------ time
\* Time is kept relative to loop.time: a timer's deadline is the distance
\* from loop.time to its expiry (0 when it is due), and run.since is the
\* distance from uv__io_poll's base to loop.time.
Monus(a, b) == IF a > b THEN a - b ELSE 0

\* uv__update_time: the monotonic clock has advanced by d milliseconds.
uv__update_time(w, d) ==
  [w EXCEPT !.hs = [h \in Handles |-> [@[h] EXCEPT !.deadline = Monus(@, d)]],
            !.run.since = IF w.run.pc = "poll_wait"
                          THEN (IF @ + d > MaxDelay THEN MaxDelay + 1 ELSE @ + d)
                          ELSE @]

Advances == 0..MaxAdvance

\* ------------------------------------------------------------ io watcher
INVALID == -1

\* uv__io_feed: queue the watcher of h for the pending phase, unless its node
\* is already linked (in pending_queue or in the local queue of a drain).
uv__io_feed_mut_always(w, h) ==
  [w EXCEPT !.loop.pending_queue = Append(@, h)]

uv__io_feed(w, h) ==
  IF Has(w.loop.pending_queue, h) \/ Has(w.run.pq, h) THEN w
  ELSE [w EXCEPT !.loop.pending_queue = Append(@, h)]

\* uv__platform_invalidate_fd: scrub the events of h's fd from the batch
\* that is being dispatched.
uv__platform_invalidate_fd(w, h) ==
  [w EXCEPT !.loop.batch =
     [i \in 1..Len(@) |-> IF @[i] = h THEN INVALID ELSE @[i]]]

\* uv__io_start / uv__io_stop on the one watcher of handle h, as far as the
\* loop driver sees them: the table slot of the fd and loop.nfds.
uv__io_start(w, h) ==
  IF w.hs[h].io_started THEN w
  ELSE [w EXCEPT !.hs[h].io_started = TRUE, !.loop.nfds = @ + 1]

uv__io_stop(w, h) ==
  IF ~w.hs[h].io_started THEN w
  ELSE [w EXCEPT !.hs[h].io_started = FALSE, !.loop.nfds = @ - 1]

uv__io_close_mut_keeppq(w, h) ==
  LET w1 == uv__io_stop(w, h)
      w2 == [w1 EXCEPT !.loop.pending_queue = Without(@, h)]
  IN uv__platform_invalidate_fd(w2, h)

\* uv__io_close: QUEUE_REMOVE unlinks the watcher's node from the queue it is
\* on, loop->pending_queue or the local queue of a drain in progress.
uv__io_close(w, h) ==
  LET w1 == uv__io_stop(w, h)
      w2 == [w1 EXCEPT !.loop.pending_queue = Without(@, h),
                       !.run.pq = Without(@, h)]
  IN uv__platform_invalidate_fd(w2, h)

\* ---------------------------------------------------------- close protocol
\* The handles linked from h through next_closing, at most n of them.
RECURSIVE ChainFrom(_, _, _)
ChainFrom(w, h, n) ==
  IF h = NULL \/ n = 0 THEN <<>>
  ELSE <<h>> \o ChainFrom(w, w.hs[h].next_closing, n - 1)

ClosingList(w) == ChainFrom(w, w.loop.closing_handles, NumHandles + 1)

uv__make_close_pending_mut_tail(w, h) ==
  IF "CLOSING" \notin w.hs[h].flags THEN Fail(w, "make_close_pending:CLOSING")
  ELSE IF "CLOSED" \in w.hs[h].flags THEN Fail(w, "make_close_pending:CLOSED")
  ELSE IF w.loop.closing_handles = NULL
  THEN [w EXCEPT !.hs[h].next_closing = NULL,
                 !.loop.closing_handles = h,
                 !.gh.linkOrder = Append(@, h)]
  ELSE [w EXCEPT !.hs[h].next_closing = NULL,
                 !.hs[Last(ClosingList(w))].next_closing = h,
                 !.gh.linkOrder = Append(@, h)]

uv__make_close_pending(w, h) ==
  IF "CLOSING" \notin w.hs[h].flags THEN Fail(w, "make_close_pending:CLOSING")
  ELSE IF "CLOSED" \in w.hs[h].flags THEN Fail(w, "make_close_pending:CLOSED")
  ELSE [w EXCEPT !.hs[h].next_closing = w.loop.closing_handles,
                 !.loop.closing_handles = h,
                 !.gh.linkOrder = Append(@, h)]

\* The loop watchers' queue of a kind.
LwQueue(k) ==
  CASE k = "UV_IDLE" -> "idle_handles"
    [] k = "UV_PREPARE" -> "prepare_handles"
    [] OTHER -> "check_handles"

uv_timer_stop(w, h) == uv__handle_stop(w, h)

\* uv_idle_stop, uv_prepare_stop, uv_check_stop.
uv_lw_stop(w, h) ==
  IF ~uv__is_active(w, h) THEN w
  ELSE uv__handle_stop(
         [w EXCEPT !.loop[LwQueue(w.hs[h].type)] = Without(@, h),
                   !.run.lq = Without(@, h)], h)

uv_read_stop(w, h) == uv__handle_stop(uv__io_stop(w, h), h)

uv__stream_close(w, h) == uv__handle_stop(uv__io_close(w, h), h)

uv__signal_stop(w, h) == uv__handle_stop(w, h)

\* Signals caught by the signal handler and still in the signal pipe keep
\* the handle from being finished: it is made pending when the last of them
\* has been dispatched (SignalDispatched).
uv__signal_close(w, h) ==
  LET w1 == uv__signal_stop(w, h)
  IN IF w1.hs[h].trapped = 0 THEN uv__make_close_pending(w1, h) ELSE w1

uv_close_mut_noassert(w, h, cb) ==
  LET w1 == [w EXCEPT !.hs[h].flags = @ \cup {"CLOSING"},
                      !.hs[h].close_cb = cb]
      k == w.hs[h].type
  IN CASE k = "UV_TCP" -> uv__make_close_pending(uv__stream_close(w1, h), h)
       [] k \in LoopWatcherKinds -> uv__make_close_pending(uv_lw_stop(w1, h), h)
       [] k = "UV_TIMER" -> uv__make_close_pending(uv_timer_stop(w1, h), h)
       [] k = "UV_SIGNAL" -> uv__signal_close(w1, h)
       [] OTHER -> Fail(w1, "uv_close:type")

uv_close(w, h, cb) ==
  IF uv__is_closing(w, h) THEN Fail(w, "uv_close:closing")
  ELSE
    LET w1 == [w EXCEPT !.hs[h].flags = @ \cup {"CLOSING"},
                        !.hs[h].close_cb = cb]
        k == w.hs[h].type
    IN CASE k = "UV_TCP" -> uv__make_close_pending(uv__stream_close(w1, h), h)
         [] k \in LoopWatcherKinds ->
              uv__make_close_pending(uv_lw_stop(w1, h), h)
         [] k = "UV_TIMER" -> uv__make_close_pending(uv_timer_stop(w1, h), h)
         [] k = "UV_SIGNAL" -> uv__signal_close(w1, h)
         [] OTHER -> Fail(w1, "uv_close:type")

\* A user callback is entered from phase ph; cont names what the caller
\* still does with handle h when the callback returns.
EnterCb(w, ph, h, cont) ==
  [w EXCEPT !.run.cb = ph, !.run.cbh = h, !.run.cont = cont,
            !.gh.cb_ran = TRUE]

\* uv__finish_close after the kind-specific destroyer: unref, unlink, and the
\* user's close_cb last.
FinishCloseTail_mut_nocb(w, h) ==
  LET w1 == uv__handle_unref(w, h)
  IN [w1 EXCEPT !.loop.handle_queue = @ \ {h}]

FinishCloseTail_mut_nounlink(w, h) ==
  LET w2 == uv__handle_unref(w, h)
  IN IF w2.hs[h].close_cb # NOCB
     THEN EnterCb([w2 EXCEPT !.gh.cb_count[h] = IF @ < 2 THEN @ + 1 ELSE @,
                             !.gh.cbSame[h] = w2.gh.sameIter[h]],
                  "closing", h, "none")
     ELSE w2

FinishCloseTail(w, h) ==
  LET w1 == uv__handle_unref(w, h)
      w2 == [w1 EXCEPT !.loop.handle_queue = @ \ {h}]
  IN IF w2.hs[h].close_cb # NOCB
     THEN EnterCb([w2 EXCEPT !.gh.cb_count[h] = IF @ < 2 THEN @ + 1 ELSE @,
                             !.gh.cbSame[h] = w2.gh.sameIter[h]],
                  "closing", h, "none")
     ELSE w2

\* uv__stream_destroy: the requests still in flight on the stream complete
\* (cancelled), and their callbacks run, before the handle is unlinked.
uv__stream_destroy(w, h) ==
  [w EXCEPT !.loop.active_reqs = @ - w.hs[h].nreqs, !.hs[h].nreqs = 0]

uv__finish_close(w, h) ==
  IF "CLOSING" \notin w.hs[h].flags THEN Fail(w, "finish_close:CLOSING")
  ELSE IF "CLOSED" \in w.hs[h].flags THEN Fail(w, "finish_close:CLOSED")
  ELSE
    LET w1 == [w EXCEPT !.hs[h].flags = @ \cup {"CLOSED"},
                        !.gh.finishOrder = Append(@, h),
                        !.gh.finSame[h] = w.gh.sameIter[h]]
    IN IF w.hs[h].type = "UV_TCP" /\ w.hs[h].nreqs > 0
       THEN EnterCb(uv__stream_destroy(w1, h), "closing", h, "finish")
       ELSE FinishCloseTail(w1, h)

\* ----------------------------------------------------------------- timers
ActiveTimers(w) ==
  {h \in Handles : w.hs[h].type = "UV_TIMER" /\ uv__is_active(w, h)}

uv_timer_start(w, h, delay) ==
  IF uv__is_closing(w, h) THEN w
  ELSE uv__handle_start(
         [uv_timer_stop(w, h) EXCEPT !.hs[h].deadline = delay],
         h)

\* The timers uv__run_timers may take next: the heap's minimum, if it is due.
DueTimers(w) ==
  {h \in ActiveTimers(w) :
     /\ w.hs[h].deadline = 0
     /\ \A g \in ActiveTimers(w) : w.hs[h].deadline <= w.hs[g].deadline}

uv__next_timeout(w) ==
  IF ActiveTimers(w) = {} THEN -1
  ELSE LET h == CHOOSE h \in ActiveTimers(w) :
                  \A g \in ActiveTimers(w) : w.hs[h].deadline <= w.hs[g].deadline
       IN w.hs[h].deadline

\* ------------------------------------------------------------ loop driver
uv_backend_timeout_mut_nostop(w) ==
  IF ~uv__has_active_handles(w) /\ ~uv__has_active_reqs(w) THEN 0
  ELSE IF w.loop.idle_handles # <<>> THEN 0
  ELSE IF w.loop.pending_queue # <<>> THEN 0
  ELSE IF w.loop.closing_handles # NULL THEN 0
  ELSE uv__next_timeout(w)

uv_backend_timeout_mut_noidle(w) ==
  IF w.loop.stop_flag # 0 THEN 0
  ELSE IF ~uv__has_active_handles(w) /\ ~uv__has_active_reqs(w) THEN 0
  ELSE IF w.loop.pending_queue # <<>> THEN 0
  ELSE IF w.loop.closing_handles # NULL THEN 0
  ELSE uv__next_timeout(w)

uv_backend_timeout_mut_nopending(w) ==
  IF w.loop.stop_flag # 0 THEN 0
  ELSE IF ~uv__has_active_handles(w) /\ ~uv__has_active_reqs(w) THEN 0
  ELSE IF w.loop.idle_handles # <<>> THEN 0
  ELSE IF w.loop.closing_handles # NULL THEN 0
  ELSE uv__next_timeout(w)

uv_backend_timeout(w) ==
  IF w.loop.stop_flag # 0 THEN 0
  ELSE IF ~uv__has_active_handles(w) /\ ~uv__has_active_reqs(w) THEN 0
  ELSE IF w.loop.idle_handles # <<>> THEN 0
  ELSE IF w.loop.pending_queue # <<>> THEN 0
  ELSE IF w.loop.closing_handles # NULL THEN 0
  ELSE uv__next_timeout(w)

uv__loop_alive_mut_noclosing(w) ==
  uv__has_active_handles(w) \/ uv__has_active_reqs(w)

uv__loop_alive(w) ==
  \/ uv__has_active_handles(w)
  \/ uv__has_active_reqs(w)
  \/ w.loop.closing_handles # NULL

uv_stop(w) == [w EXCEPT !.loop.stop_flag = 1, !.gh.stopSeen = TRUE]

\* The order of uv_run's statements: the phase that follows phase ph.
PhaseAfter_mut_swap(ph) ==
  CASE ph = "timers" -> "pending"
    [] ph = "pending" -> "idle"
    [] ph = "idle" -> "prepare"
    [] ph = "prepare" -> "poll"
    [] ph = "poll" -> "closing"
    [] ph = "closing" -> "check"
    [] ph = "check" -> "once"
    [] OTHER -> "end"

PhaseAfter(ph) ==
  CASE ph = "timers" -> "pending"
    [] ph = "pending" -> "idle"
    [] ph = "idle" -> "prepare"
    [] ph = "prepare" -> "poll"
    [] ph = "poll" -> "check"
    [] ph = "check" -> "closing"
    [] ph = "closing" -> "once"
    [] OTHER -> "end"

Goto(w, ph) == [w EXCEPT !.run.pc = ph]

Note(w, ph) == [w EXCEPT !.gh.trace = Append(@, ph)]

\* A new iteration begins: the observer forgets the handles that are closed,
\* and no close() call was made in this iteration yet.
NewIteration(w) ==
  LET done == {h \in Handles : "CLOSED" \in w.hs[h].flags}
  IN [w EXCEPT !.gh.trace = <<>>,
               !.gh.pendCb = FALSE,
               !.gh.fedIn = [h \in Handles |-> "none"],
               !.gh.sameIter = [h \in Handles |-> FALSE],
               !.gh.closedIn = [h \in Handles |-> IF h \in done THEN "never" ELSE @[h]],
               !.gh.cbSame = [h \in Handles |-> FALSE],
               !.gh.finSame = [h \in Handles |-> FALSE],
               !.gh.finishOrder = <<>>,
               !.gh.closeOrder = SelectSeq(@, LAMBDA h : h \notin done),
               !.gh.linkOrder = SelectSeq(@, LAMBDA h : h \notin done)]

\* uv_run up to its loop: r and, for a loop that is not alive, the time.
uv_run_enter(w, m, d) ==
  LET alive == uv__loop_alive(w)
      w1 == IF alive THEN w ELSE uv__update_time(w, d)
  IN [NewIteration(w1) EXCEPT !.run.pc = "top", !.run.mode = m,
                !.run.r = IF alive THEN 1 ELSE 0,
                !.gh.cb_ran = FALSE,
                !.gh.stopSeen = (w.loop.stop_flag # 0),
                !.gh.entryAlive = alive,
                !.gh.entryStop = (w.loop.stop_flag # 0)]

uv_run_return_mut_keepstop(w) == [w EXCEPT !.run.pc = "ret"]

\* uv_run after its loop: stop_flag is cleared and r returned.
uv_run_return(w) ==
  [w EXCEPT !.loop.stop_flag = 0, !.run.pc = "ret"]

\* The loop's test, and the first statements of an iteration.
uv_run_top(w, d) ==
  IF w.run.r # 0 /\ w.loop.stop_flag = 0
  THEN Goto(Note(Note(uv__update_time(NewIteration(w), d), "time"), "timers"),
            "timers")
  ELSE uv_run_return(w)

\* The end of an iteration's body.
uv_run_iter_end(w) ==
  LET w1 == [w EXCEPT !.run.r = IF uv__loop_alive(w) THEN 1 ELSE 0]
  IN IF w.run.mode \in {UV_RUN_ONCE, UV_RUN_NOWAIT}
     THEN uv_run_return(w1)
     ELSE Goto(w1, "top")

\* uv__run_timers, one timer: stop it, then its callback.
uv__run_timers_one(w, h) ==
  EnterCb(uv_timer_stop(w, h), "timers", h, "none")

\* uv__run_pending: nothing queued, or the queue moves to the local pq.
uv__run_pending_begin(w) ==
  LET w1 == Note(w, "pending")
  IN IF w.loop.pending_queue = <<>>
     THEN [w1 EXCEPT !.run.ran_pending = 0, !.run.pc = PhaseAfter("pending")]
     ELSE [w1 EXCEPT !.run.pq = w.loop.pending_queue,
                     !.loop.pending_queue = <<>>,
                     !.run.pc = "pending_loop",
                     !.gh.pendStart = w.loop.pending_queue]

\* The record of a pending phase ends with the phase.
PendingDone(w) ==
  [w EXCEPT !.gh.pendStart = <<>>,
            !.gh.pendRan = [h \in Handles |-> 0],
            !.gh.ranFed = [h \in Handles |-> "none"]]

\* w->cb(loop, w, POLLOUT) on the watcher of handle h.
PendingCb(w, h) ==
  [EnterCb(w, "pending", h, "none") EXCEPT
     !.run.cbev = {"POLLOUT"},
     !.gh.pendRan[h] = IF @ < 2 THEN @ + 1 ELSE @,
     !.gh.pendCb = TRUE,
     !.gh.ranFed[h] = w.gh.fedIn[h],
     !.gh.fedIn[h] = "none"]

uv__run_pending_step_mut_drain(w) ==
  IF w.run.pq = <<>>
  THEN IF w.loop.pending_queue = <<>>
       THEN PendingDone([w EXCEPT !.run.ran_pending = 1,
                                  !.run.pc = PhaseAfter("pending")])
       ELSE [w EXCEPT !.run.pq = w.loop.pending_queue,
                      !.loop.pending_queue = <<>>]
  ELSE PendingCb([w EXCEPT !.run.pq = Tail(@)], Head(w.run.pq))

uv__run_pending_step(w) ==
  IF w.run.pq = <<>>
  THEN PendingDone([w EXCEPT !.run.ran_pending = 1,
                             !.run.pc = PhaseAfter("pending")])
  ELSE PendingCb([w EXCEPT !.run.pq = Tail(@)], Head(w.run.pq))

\* uv__run_idle, uv__run_prepare, uv__run_check.
LwOfPhase(ph) ==
  CASE ph = "idle" -> "idle_handles"
    [] ph = "prepare" -> "prepare_handles"
    [] OTHER -> "check_handles"

uv__run_lw_begin(w, ph) ==
  [Note(w, ph) EXCEPT !.run.lq = w.loop[LwOfPhase(ph)],
                      !.loop[LwOfPhase(ph)] = <<>>,
                      !.run.pc = "lw_loop", !.run.lwph = ph]

uv__run_lw_step(w) ==
  IF w.run.lq = <<>>
  THEN [w EXCEPT !.run.pc = PhaseAfter(w.run.lwph), !.run.lwph = "none"]
  ELSE EnterCb([w EXCEPT !.run.lq = Tail(@),
                         !.loop[LwOfPhase(w.run.lwph)] = Append(@, Head(w.run.lq))],
               w.run.lwph, Head(w.run.lq), "none")

\* uv__run_closing_handles: the list is taken and closing_handles nulled,
\* then each handle of the taken list is finished.
uv__run_closing_begin_mut_nonull(w) ==
  [Note(w, "closing") EXCEPT !.run.p = w.loop.closing_handles,
                             !.run.pc = "closing_loop"]

uv__run_closing_begin(w) ==
  [Note(w, "closing") EXCEPT !.run.p = w.loop.closing_handles,
                             !.loop.closing_handles = NULL,
                             !.run.pc = "closing_loop"]

uv__run_closing_step_mut_drain(w) ==
  IF w.run.p = NULL
  THEN IF w.loop.closing_handles = NULL THEN Goto(w, PhaseAfter("closing"))
       ELSE [w EXCEPT !.run.p = w.loop.closing_handles,
                      !.loop.closing_handles = NULL]
  ELSE LET q == w.hs[w.run.p].next_closing
       IN [uv__finish_close(w, w.run.p) EXCEPT !.run.p = q]

uv__run_closing_step_mut_readafter(w) ==
  IF w.run.p = NULL
  THEN Goto(w, PhaseAfter("closing"))
  ELSE IF "CLOSED" \in w.hs[w.run.p].flags
  THEN [w EXCEPT !.run.p = w.hs[w.run.p].next_closing]
  ELSE uv__finish_close(w, w.run.p)

\* uv__run_closing_handles, one turn of while (p): q is read before
\* uv__finish_close(p) runs.
uv__run_closing_step(w) ==
  IF w.run.p = NULL
  THEN Goto(w, PhaseAfter("closing"))
  ELSE LET q == w.hs[w.run.p].next_closing
       IN [uv__finish_close(w, w.run.p) EXCEPT !.run.p = q]

\* The statements after the closing phase.
uv_run_once(w, d) ==
  IF w.run.mode = UV_RUN_ONCE
  THEN Goto(Note(Note(uv__update_time(w, d), "time"), "timers"), "timers2")
  ELSE uv_run_iter_end(w)

\* ------------------------------------------------------------------- poll
uv_run_timeout_mut_always(w) == uv_backend_timeout(w)

\* The timeout uv_run passes to uv__io_poll.
uv_run_timeout(w) ==
  IF (w.run.mode = UV_RUN_ONCE /\ w.run.ran_pending = 0)
       \/ w.run.mode = UV_RUN_DEFAULT
  THEN uv_backend_timeout(w)
  ELSE 0

\* uv__io_poll returns: its locals are dead, and the observer forgets the
\* batch.
PollReturn(w) ==
  [w EXCEPT !.run.pc = PhaseAfter("poll"), !.run.timeout = 0,
            !.run.real_timeout = 0, !.run.since = 0,
            !.run.have_signals = 0, !.run.nevents = 0, !.loop.batch = <<>>,
            !.run.count = 0, !.run.nfds = 0, !.run.sigev = {},
            !.gh.batch0 = <<>>, !.gh.polled = <<>>, !.gh.nbatch = 0]

uv__io_poll_begin_mut_wait(w) ==
  LET t == uv_run_timeout(w)
      w1 == Note(w, "poll")
  IN [w1 EXCEPT !.run.pc = "poll_wait", !.run.timeout = t,
                !.run.real_timeout = t, !.run.since = 0,
                !.run.count = PollCount]

\* uv__io_poll up to its wait loop.
uv__io_poll_begin(w) ==
  LET t == uv_run_timeout(w)
      w1 == Note(w, "poll")
  IN IF w.loop.nfds = 0 THEN Goto(w1, PhaseAfter("poll"))
     ELSE [w1 EXCEPT !.run.pc = "poll_wait", !.run.timeout = t,
                     !.run.real_timeout = t, !.run.since = 0,
                     !.run.count = PollCount]

\* The update_timeout label.
update_timeout(w) ==
  LET rt == w.run.real_timeout - w.run.since
  IN IF rt <= 0 THEN PollReturn(w)
     ELSE [w EXCEPT !.run.real_timeout = rt, !.run.timeout = rt,
                    !.run.pc = "poll_wait"]

\* One epoll_pwait and what follows it up to the dispatch loop: the clock has
\* advanced by d, and the wait returned no event ("none"), failed with EINTR
\* ("eintr") or returned the batch ev ("events").
uv__io_poll_wait(w, d, res, ev) ==
  LET w1 == uv__update_time(w, d)
  IN IF res = "none"
     THEN IF w.run.timeout = -1 THEN Fail(w1, "io_poll:timeout")
          ELSE IF w.run.timeout = 0 THEN PollReturn(w1)
          ELSE update_timeout(w1)
     ELSE IF res = "eintr"
     THEN IF w.run.timeout = -1 THEN w1
          ELSE IF w.run.timeout = 0 THEN PollReturn(w1)
          ELSE update_timeout(w1)
     ELSE [w1 EXCEPT !.loop.batch = ev, !.run.have_signals = 0,
                     !.run.nevents = 0, !.run.nfds = Len(ev),
                     !.run.pc = "poll_dispatch",
                     !.gh.batch0 = ev, !.gh.polled = <<>>,
                     !.gh.nbatch = IF @ <= PollCount THEN @ + 1 ELSE @]

uv__io_poll_after_mut_repoll(w) ==
  LET w1 == [w EXCEPT !.loop.batch = <<>>, !.run.sigev = {},
                      !.run.nfds = 0, !.run.nevents = 0,
                      !.gh.batch0 = <<>>, !.gh.polled = <<>>]
  IN IF w.run.nevents # 0
     THEN IF w.run.nfds = EventsSize /\ w.run.count - 1 # 0
          THEN [w1 EXCEPT !.run.count = @ - 1, !.run.timeout = 0,
                          !.run.have_signals = 0,
                          !.run.pc = "poll_wait"]
          ELSE PollReturn(w1)
     ELSE IF w.run.timeout = 0 THEN PollReturn(w1)
     ELSE IF w.run.timeout = -1 THEN Goto(w1, "poll_wait")
     ELSE update_timeout(w1)

uv__io_poll_after_mut_nocount(w) ==
  LET w1 == [w EXCEPT !.loop.batch = <<>>, !.run.sigev = {},
                      !.run.nfds = 0, !.run.nevents = 0,
                      !.gh.batch0 = <<>>, !.gh.polled = <<>>]
  IN IF w.run.have_signals # 0 THEN PollReturn(w1)
     ELSE IF w.run.nevents # 0
     THEN IF w.run.nfds = EventsSize
          THEN [w1 EXCEPT !.run.timeout = 0, !.run.pc = "poll_wait"]
          ELSE PollReturn(w1)
     ELSE IF w.run.timeout = 0 THEN PollReturn(w1)
     ELSE IF w.run.timeout = -1 THEN Goto(w1, "poll_wait")
     ELSE update_timeout(w1)

\* After the dispatch loop and the signal watcher's callback: a batch that
\* filled the events array is followed by another wait with timeout 0, at
\* most count times.
uv__io_poll_after(w) ==
  LET w1 == [w EXCEPT !.loop.batch = <<>>, !.run.sigev = {},
                      !.run.nfds = 0, !.run.nevents = 0,
                      !.gh.batch0 = <<>>, !.gh.polled = <<>>]
  IN IF w.run.have_signals # 0 THEN PollReturn(w1)
     ELSE IF w.run.nevents # 0
     THEN IF w.run.nfds = EventsSize /\ w.run.count - 1 # 0
          THEN [w1 EXCEPT !.run.count = @ - 1, !.run.timeout = 0,
                          !.run.pc = "poll_wait"]
          ELSE PollReturn(w1)
     ELSE IF w.run.timeout = 0 THEN PollReturn(w1)
     ELSE IF w.run.timeout = -1 THEN Goto(w1, "poll_wait")
     ELSE update_timeout(w1)

\* The dispatch loop, one event of the batch.
uv__io_poll_dispatch(w) ==
  IF w.loop.batch = <<>>
  THEN IF w.run.have_signals # 0
       THEN [w EXCEPT !.run.pc = "poll_signal", !.run.sigev = {"POLLIN"}]
       ELSE uv__io_poll_after(w)
  ELSE LET fd == Head(w.loop.batch)
           w1 == [w EXCEPT !.loop.batch = Tail(@)]
       IN IF fd = INVALID THEN w1
          ELSE IF fd = SIGW
          THEN [w1 EXCEPT !.run.have_signals = 1, !.run.nevents = @ + 1]
          ELSE IF ~w.hs[fd].io_started THEN w1
          ELSE EnterCb([w1 EXCEPT !.run.nevents = @ + 1,
                                  !.gh.polled = Append(@, fd)],
                       "poll", fd, "none")

\* uv__signal_event after a message's callback: the signal counts as
\* dispatched, and a closing handle with none left is made pending.
SignalDispatched(w, h) ==
  LET w1 == [w EXCEPT !.hs[h].trapped = @ - 1]
  IN IF "CLOSING" \in w1.hs[h].flags /\ w1.hs[h].trapped = 0
     THEN uv__make_close_pending(w1, h)
     ELSE w1

Trapped(w) == {h \in Handles : w.hs[h].trapped > 0}

\* uv__signal_event, one message of the signal pipe.
uv__signal_event(w, h) ==
  IF uv__is_active(w, h) THEN EnterCb(w, "poll", h, "signal")
  ELSE SignalDispatched(w, h)

\* The batches a wait can return: the started watchers' fds, and the signal
\* watcher's when the signal pipe holds a message, in any order.
Ready(w) ==
  {h \in Handles : w.hs[h].io_started}
    \cup (IF w.loop.signal_started /\ Trapped(w) # {} THEN {SIGW} ELSE {})

Min(a, b) == IF a < b THEN a ELSE b

Batches(w) ==
  {b \in UNION {[1..n -> Ready(w)] :
                  n \in 1..Min(Cardinality(Ready(w)), EventsSize)} :
     \A i, j \in 1..Len(b) : i # j => b[i] # b[j]}

\* The return of a user callback to the code that called it.
cb_return(w) ==
  LET h == w.run.cbh
      c == w.run.cont
      w1 == [w EXCEPT !.run.cb = "none", !.run.cbh = NULL, !.run.cont = "none",
                      !.run.cbev = {}]
  IN IF c = "finish" THEN FinishCloseTail(w1, h)
     ELSE IF c = "signal" THEN SignalDispatched(w1, h)
     ELSE w1

\* ------------------------------------------------------------- user calls
\* User code runs inside a callback, or between two calls of uv_run.
UserCtx == Running /\ (run.cb # "none" \/ run.pc \in {"out", "ret"})

\* The phase user code is called from.
CtxPhase(w) ==
  IF w.run.cb = "none" THEN "outside"
  ELSE IF w.run.pc = "timers2" THEN "timers2"
  ELSE w.run.cb

\* After uv_run has returned, the next thing the user does ends the
\* observation of that call.
Leave(w) ==
  IF w.run.pc # "ret" THEN w
  ELSE [NewIteration(w) EXCEPT
          !.run.pc = "out", !.run.mode = UV_RUN_DEFAULT, !.run.r = 0,
          !.gh.cb_ran = FALSE, !.gh.stopSeen = FALSE,
          !.gh.entryAlive = FALSE, !.gh.entryStop = FALSE]

Inited(h) == hs[h].type # "UNKNOWN"

\* uv__handle_init, and uv_signal_init's start of the loop's signal watcher.
uv_handle_init(w, h, k) ==
  LET w1 == [w EXCEPT !.hs[h].type = k, !.hs[h].flags = {"REF"},
                      !.hs[h].next_closing = NULL,
                      !.loop.handle_queue = @ \cup {h}]
  IN IF k = "UV_SIGNAL" /\ ~w.loop.signal_started
     THEN [w1 EXCEPT !.loop.signal_started = TRUE, !.loop.nfds = @ + 1]
     ELSE w1

uv_lw_start(w, h) ==
  IF uv__is_active(w, h) THEN w
  ELSE uv__handle_start(
         [w EXCEPT !.loop[LwQueue(w.hs[h].type)] = <<h>> \o @], h)

uv_read_start(w, h) == uv__handle_start(uv__io_start(w, h), h)

uv_signal_start(w, h) == uv__handle_start(w, h)

uv_handle_start(w, h, delay) ==
  LET k == w.hs[h].type
  IN CASE k = "UV_TIMER" -> uv_timer_start(w, h, delay)
       [] k = "UV_TCP" -> uv_read_start(w, h)
       [] k = "UV_SIGNAL" -> uv_signal_start(w, h)
       [] OTHER -> uv_lw_start(w, h)

uv_handle_stop(w, h) ==
  LET k == w.hs[h].type
  IN CASE k = "UV_TIMER" -> uv_timer_stop(w, h)
       [] k = "UV_TCP" -> uv_read_stop(w, h)
       [] k = "UV_SIGNAL" -> uv__signal_stop(w, h)
       [] OTHER -> uv_lw_stop(w, h)

\* A request on a stream (a write): registered until its callback has run.
uv_req_submit(w, h) ==
  [w EXCEPT !.hs[h].nreqs = @ + 1, !.loop.active_reqs = @ + 1]

uv_req_done(w, h) ==
  [w EXCEPT !.hs[h].nreqs = @ - 1, !.loop.active_reqs = @ - 1]

\* What the observer records of a call of uv_close that passed its assertion:
\* the phase it was made from, and that it was made in the iteration running.
NoteClose(w0, w, h) ==
  IF w.abort # "none" THEN w
  ELSE [w EXCEPT !.gh.closedIn[h] = CtxPhase(w0),
                 !.gh.sameIter[h] = (w0.run.cb # "none"),
                 !.gh.closeOrder = Append(@, h)]

UserInit(h, k) ==
  /\ UserCtx /\ ~Inited(h) /\ run.pc \in {"out", "ret"}
  /\ Apply(Leave(uv_handle_init(World, h, k)))

UserStart(h, delay) ==
  /\ UserCtx /\ Inited(h) /\ ~uv__is_closing(World, h)
  /\ hs[h].type = "UV_TIMER" \/ (delay = 0 /\ ~uv__is_active(World, h))
  /\ Apply(Leave(uv_handle_start(World, h, delay)))

UserStop(h) ==
  /\ UserCtx /\ Inited(h) /\ ~uv__is_closing(World, h)
  /\ uv__is_active(World, h)
  /\ Apply(Leave(uv_handle_stop(World, h)))

UserClose(h, cb) ==
  /\ UserCtx /\ Inited(h)
  /\ Apply(Leave(NoteClose(World, uv_close(World, h, cb), h)))

UserStopLoop ==
  /\ UserCtx /\ loop.stop_flag = 0
  /\ Apply(Leave(uv_stop(World)))

\* The record of a feed that queued the watcher: made in the timers phase of
\* the running iteration, or after it.
NoteFeed(w0, w, h) ==
  IF w.loop.pending_queue = w0.loop.pending_queue THEN w
  ELSE [w EXCEPT !.gh.fedIn[h] =
          IF w0.run.cb = "none" THEN "none"
          ELSE IF CtxPhase(w0) = "timers" THEN "timers" ELSE "after"]

UserFeed(h) ==
  /\ UserCtx /\ hs[h].type = "UV_TCP" /\ ~uv__is_closing(World, h)
  /\ Apply(Leave(NoteFeed(World, uv__io_feed(World, h), h)))

UserReq(h) ==
  /\ UserCtx /\ hs[h].type = "UV_TCP" /\ ~uv__is_closing(World, h)
  /\ hs[h].nreqs < MaxReqs
  /\ Apply(Leave(uv_req_submit(World, h)))

\* The stream's io callback completes a request of the stream.
ReqComplete ==
  /\ Running /\ run.cb \in {"poll", "pending"} /\ run.cbh # NULL
  /\ hs[run.cbh].type = "UV_TCP" /\ hs[run.cbh].nreqs > 0
  /\ Apply(uv_req_done(World, run.cbh))

\* The process receives a signal a started signal handle watches: the signal
\* handler counts it and writes it to the signal pipe.
SignalCaught(h) ==
  /\ Running /\ hs[h].type = "UV_SIGNAL" /\ uv__is_active(World, h)
  /\ hs[h].trapped < MaxTrapped
  /\ loop' = loop /\ run' = run /\ gh' = gh /\ abort' = abort
  /\ UNCHANGED <<io, calc, fdst, wait>>
  /\ hs' = [hs EXCEPT ![h].trapped = @ + 1]

CbReturn ==
  /\ Running /\ run.cb # "none"
  /\ Apply(cb_return(World))

\* ----------------------------------------------------------- uv_run steps
InRun(ph) == Running /\ run.cb = "none" /\ run.pc = ph

UvRun(m) ==
  /\ Running /\ run.pc \in {"out", "ret"}
  /\ \E d \in Advances : Apply(uv_run_enter(World, m, d))

LoopTop ==
  /\ InRun("top")
  /\ \E d \in Advances : Apply(uv_run_top(World, d))

RunTimers ==
  /\ InRun("timers")
  /\ IF DueTimers(World) = {}
     THEN Apply(Goto(World, PhaseAfter("timers")))
     ELSE \E h \in DueTimers(World) : Apply(uv__run_timers_one(World, h))

RunPendingBegin ==
  /\ InRun("pending")
  /\ Apply(uv__run_pending_begin(World))

RunPending ==
  /\ InRun("pending_loop")
  /\ Apply(uv__run_pending_step(World))

RunLwBegin ==
  /\ Running /\ run.cb = "none" /\ run.pc \in {"idle", "prepare", "check"}
  /\ Apply(uv__run_lw_begin(World, run.pc))

RunLw ==
  /\ InRun("lw_loop")
  /\ Apply(uv__run_lw_step(World))

IoPollBegin ==
  /\ InRun("poll")
  /\ Apply(uv__io_poll_begin(World))

IoPollWaitNone ==
  /\ InRun("poll_wait") /\ run.timeout # -1
  /\ \E d \in Advances : Apply(uv__io_poll_wait(World, d, "none", <<>>))

IoPollWaitEintr ==
  /\ InRun("poll_wait")
  /\ \E d \in Advances : Apply(uv__io_poll_wait(World, d, "eintr", <<>>))

IoPollWaitEvents ==
  /\ InRun("poll_wait")
  /\ \E d \in Advances, b \in Batches(World) :
       Apply(uv__io_poll_wait(World, d, "events", b))

IoPollDispatch ==
  /\ InRun("poll_dispatch")
  /\ Apply(uv__io_poll_dispatch(World))

IoPollSignal ==
  /\ InRun("poll_signal")
  /\ IF Trapped(World) = {}
     THEN Apply(uv__io_poll_after(World))
     ELSE \E h \in Trapped(World) : Apply(uv__signal_event(World, h))

RunClosingBegin ==
  /\ InRun("closing")
  /\ Apply(uv__run_closing_begin(World))

RunClosing ==
  /\ InRun("closing_loop")
  /\ Apply(uv__run_closing_step(World))

RunOnce ==
  /\ InRun("once")
  /\ \E d \in Advances : Apply(uv_run_once(World, d))

RunTimers2 ==
  /\ InRun("timers2")
  /\ IF DueTimers(World) = {}
     THEN Apply(uv_run_iter_end(World))
     ELSE \E h \in DueTimers(World) : Apply(uv__run_timers_one(World, h))

\* ------------------------------------------------- the io watcher table
POLLIN == "POLLIN"
POLLOUT == "POLLOUT"
POLLERR == "POLLERR"
POLLHUP == "POLLHUP"
UV__POLLRDHUP == "UV__POLLRDHUP"
UV__POLLPRI == "UV__POLLPRI"

\* The bits uv__io_start and uv__io_stop accept.
EventBits == {POLLIN, POLLOUT, UV__POLLRDHUP, UV__POLLPRI}

\* The masks the owner of a watcher starts and stops it with: a stream's
\* read and write sides, or a poll handle's readable and priority events.
StartMasks(w) ==
  IF w % 2 = 1 THEN {{POLLIN}, {POLLOUT}}
  ELSE {{POLLIN, UV__POLLRDHUP}, {UV__POLLPRI}}

IoWatchers == 1..NumWatchers

Fds == 0..MaxFd

\* unsigned int as the set of the positions of its one bits.
UintBits == 0..31

ToBits(n) == {i \in 0..30 : (n \div (2 ^ i)) % 2 = 1}

RECURSIVE FromBits(_)
FromBits(S) ==
  IF S = {} THEN 0
  ELSE LET i == CHOOSE i \in S : TRUE IN 2 ^ i + FromBits(S \ {i})

BitsShr(S, k) == {i - k : i \in {j \in S : j >= k}}

BitsDec(S) ==
  IF S = {} THEN UintBits
  ELSE LET l == CHOOSE l \in S : \A j \in S : l <= j
       IN (S \ {l}) \cup {j \in UintBits : j < l}

BitsInc(S) ==
  IF S = UintBits THEN {}
  ELSE LET l == CHOOSE l \in UintBits \ S : \A j \in UintBits \ S : l <= j
       IN {j \in S : j > l} \cup {l}

\* next_power_of_two on the bits of val.
next_power_of_two_bits_mut_nodec(V) ==
  LET v1 == V \cup BitsShr(V, 1)
      v2 == v1 \cup BitsShr(v1, 2)
      v3 == v2 \cup BitsShr(v2, 4)
      v4 == v3 \cup BitsShr(v3, 8)
      v5 == v4 \cup BitsShr(v4, 16)
  IN BitsInc(v5)

next_power_of_two_bits(V) ==
  LET v0 == BitsDec(V)
      v1 == v0 \cup BitsShr(v0, 1)
      v2 == v1 \cup BitsShr(v1, 2)
      v3 == v2 \cup BitsShr(v2, 4)
      v4 == v3 \cup BitsShr(v3, 8)
      v5 == v4 \cup BitsShr(v4, 16)
  IN BitsInc(v5)

next_power_of_two(val) == FromBits(next_power_of_two_bits(ToBits(val)))

IoFail(s, what) == [s EXCEPT !.fail = IF @ = "none" THEN what ELSE @]

maybe_resize_mut_lose(s, len) ==
  IF len <= s.nwatchers THEN s
  ELSE LET n == next_power_of_two(len + 2) - 2
       IN [s EXCEPT !.watchers = [i \in 1..n |-> NULL], !.nwatchers = n]

maybe_resize_mut_nofake(s, len) ==
  IF len <= s.nwatchers THEN s
  ELSE LET n == next_power_of_two(len + 2) - 2
       IN [s EXCEPT !.watchers = @ \o [i \in 1..(n - s.nwatchers) |-> NULL],
                    !.nwatchers = n, !.stash = FALSE]

\* maybe_resize: the table grows to next_power_of_two(len + 2) - 2 slots,
\* the new ones NULL; the two entries past its end (io.stash: they point to
\* the batch being dispatched) are read from the old table, NULL when there
\* was none, and written past the end of the new one.
maybe_resize(s, len) ==
  IF len <= s.nwatchers THEN s
  ELSE LET fake_watcher_list == IF s.watchers # <<>> THEN s.stash ELSE FALSE
           n == next_power_of_two(len + 2) - 2
       IN [s EXCEPT !.watchers = @ \o [i \in 1..(n - s.nwatchers) |-> NULL],
                    !.nwatchers = n, !.stash = fake_watcher_list]

uv__io_init(s, w, fd) ==
  [s EXCEPT !.ws[w] = [fd |-> fd, events |-> {}, pevents |-> {}]]

\* uv__io_start with its event masks.
io_start(s, w, events) ==
  LET fd == s.ws[w].fd
  IN IF events \ EventBits # {} \/ events = {} THEN IoFail(s, "io_start:events")
     ELSE IF fd < 0 THEN IoFail(s, "io_start:fd")
     ELSE LET pe == s.ws[w].pevents \cup events
              s1 == maybe_resize([s EXCEPT !.ws[w].pevents = pe], fd + 1)
          IN IF s1.ws[w].events = pe THEN s1
             ELSE LET s2 == IF Has(s1.watcher_queue, w) THEN s1
                            ELSE [s1 EXCEPT !.watcher_queue = Append(@, w)]
                  IN IF s2.watchers[fd + 1] = NULL
                     THEN [s2 EXCEPT !.watchers[fd + 1] = w, !.nfds = @ + 1]
                     ELSE s2

io_stop_mut_keepslot(s, w, events) ==
  LET fd == s.ws[w].fd
  IN IF fd = INVALID \/ fd >= s.nwatchers THEN s
     ELSE LET pe == s.ws[w].pevents \ events
              s1 == [s EXCEPT !.ws[w].pevents = pe]
          IN IF pe = {} THEN [s1 EXCEPT !.watcher_queue = Without(@, w)]
             ELSE IF Has(s1.watcher_queue, w) THEN s1
             ELSE [s1 EXCEPT !.watcher_queue = Append(@, w)]

io_stop_mut_norequeue(s, w, events) ==
  LET fd == s.ws[w].fd
  IN IF fd = INVALID \/ fd >= s.nwatchers THEN s
     ELSE LET pe == s.ws[w].pevents \ events
              s1 == [s EXCEPT !.ws[w].pevents = pe]
          IN IF pe = {}
             THEN LET s2 == [s1 EXCEPT !.watcher_queue = Without(@, w)]
                  IN IF s2.watchers[fd + 1] # NULL
                     THEN [s2 EXCEPT !.watchers[fd + 1] = NULL, !.nfds = @ - 1,
                                     !.ws[w].events = {}]
                     ELSE s2
             ELSE s1

io_stop_mut_nodequeue(s, w, events) ==
  LET fd == s.ws[w].fd
  IN IF fd = INVALID \/ fd >= s.nwatchers THEN s
     ELSE LET pe == s.ws[w].pevents \ events
              s1 == [s EXCEPT !.ws[w].pevents = pe]
          IN IF pe = {}
             THEN IF s1.watchers[fd + 1] # NULL
                  THEN [s1 EXCEPT !.watchers[fd + 1] = NULL, !.nfds = @ - 1,
                                  !.ws[w].events = {}]
                  ELSE s1
             ELSE IF Has(s1.watcher_queue, w) THEN s1
             ELSE [s1 EXCEPT !.watcher_queue = Append(@, w)]

\* uv__io_stop with its event masks.
io_stop(s, w, events) ==
  LET fd == s.ws[w].fd
  IN IF events \ EventBits # {} \/ events = {} THEN IoFail(s, "io_stop:events")
     ELSE IF fd = INVALID THEN s
     ELSE IF fd >= s.nwatchers THEN s
     ELSE LET pe == s.ws[w].pevents \ events
              s1 == [s EXCEPT !.ws[w].pevents = pe]
          IN IF pe = {}
             THEN LET s2 == [s1 EXCEPT !.watcher_queue = Without(@, w)]
                  IN IF s2.watchers[fd + 1] # NULL
                     THEN IF s2.watchers[fd + 1] # w
                          THEN IoFail(s2, "io_stop:watchers")
                          ELSE IF s2.nfds = 0 THEN IoFail(s2, "io_stop:nfds")
                          ELSE [s2 EXCEPT !.watchers[fd + 1] = NULL,
                                          !.nfds = @ - 1,
                                          !.ws[w].events = {}]
                     ELSE s2
             ELSE IF Has(s1.watcher_queue, w) THEN s1
             ELSE [s1 EXCEPT !.watcher_queue = Append(@, w)]

invalidate_fd_mut_noscrub(s, fd) ==
  IF s.nwatchers = 0 THEN IoFail(s, "invalidate_fd:watchers")
  ELSE [s EXCEPT !.epoll = [f \in Fds |-> IF f = fd THEN {} ELSE @[f]]]

\* uv__platform_invalidate_fd: when a batch is being dispatched (the stash
\* past the end of the table is not NULL) its events for fd are marked -1;
\* and fd leaves the epoll set.
invalidate_fd(s, fd) ==
  IF s.nwatchers = 0 THEN IoFail(s, "invalidate_fd:watchers")
  ELSE [s EXCEPT !.batch = IF s.stash
                           THEN [i \in 1..Len(@) |->
                                   IF @[i] = fd THEN INVALID ELSE @[i]]
                           ELSE @,
                 !.epoll = [f \in Fds |-> IF f = fd THEN {} ELSE @[f]]]

\* uv__io_close with its event masks.
io_close(s, w) == invalidate_fd(io_stop(s, w, EventBits), s.ws[w].fd)

\* The owner of a closed watcher closes the descriptor, which the kernel
\* drops from the epoll set, and forgets it.
fd_close(s, w) ==
  LET fd == s.ws[w].fd
  IN IF fd = INVALID THEN s
     ELSE [s EXCEPT !.epoll[fd] = {}, !.ws[w].fd = INVALID]

\* epoll_ctl on the epoll set ep: the set after the call and the errno.
epoll_ctl(ep, op, fd, mask) ==
  IF op = "EPOLL_CTL_ADD"
  THEN IF ep[fd] # {} THEN [ep |-> ep, err |-> "EEXIST"]
       ELSE [ep |-> [ep EXCEPT ![fd] = mask], err |-> "none"]
  ELSE IF op = "EPOLL_CTL_MOD"
  THEN IF ep[fd] = {} THEN [ep |-> ep, err |-> "ENOENT"]
       ELSE [ep |-> [ep EXCEPT ![fd] = mask], err |-> "none"]
  ELSE IF ep[fd] = {} THEN [ep |-> ep, err |-> "ENOENT"]
  ELSE [ep |-> [ep EXCEPT ![fd] = {}], err |-> "none"]

RECURSIVE io_flush_mut_noretry(_)
io_flush_mut_noretry(s) ==
  IF s.watcher_queue = <<>> \/ s.fail # "none" THEN s
  ELSE LET w == Head(s.watcher_queue)
           fd == s.ws[w].fd
           s1 == [s EXCEPT !.watcher_queue = Tail(@)]
           op == IF s.ws[w].events = {} THEN "EPOLL_CTL_ADD"
                 ELSE "EPOLL_CTL_MOD"
       IN IF s.ws[w].pevents = {} THEN IoFail(s1, "io_poll:pevents")
          ELSE IF fd < 0 \/ fd >= s.nwatchers THEN IoFail(s1, "io_poll:fd")
          ELSE LET r1 == epoll_ctl(s.epoll, op, fd, s.ws[w].pevents)
               IN IF r1.err # "none" THEN IoFail(s1, "io_poll:abort")
                  ELSE io_flush_mut_noretry(
                         [s1 EXCEPT !.epoll = r1.ep,
                                    !.ws[w].events = s.ws[w].pevents,
                                    !.ops = Append(@,
                                      [w |-> w, op |-> op, retried |-> FALSE,
                                       events |-> s.ws[w].events])])

\* uv__io_poll, the flush of watcher_queue into the epoll set.  io.ops lists
\* the epoll_ctl calls of the flush: the watcher, the operation chosen, what
\* its events field was, and whether EEXIST made it retry with MOD.
RECURSIVE io_flush(_)
io_flush(s) ==
  IF s.watcher_queue = <<>> \/ s.fail # "none" THEN s
  ELSE LET w == Head(s.watcher_queue)
           fd == s.ws[w].fd
           s1 == [s EXCEPT !.watcher_queue = Tail(@)]
           op == IF s.ws[w].events = {} THEN "EPOLL_CTL_ADD"
                 ELSE "EPOLL_CTL_MOD"
       IN IF s.ws[w].pevents = {} THEN IoFail(s1, "io_poll:pevents")
          ELSE IF fd < 0 \/ fd >= s.nwatchers THEN IoFail(s1, "io_poll:fd")
          ELSE LET r1 == epoll_ctl(s.epoll, op, fd, s.ws[w].pevents)
                   r2 == IF r1.err = "none" THEN r1
                         ELSE epoll_ctl(s.epoll, "EPOLL_CTL_MOD", fd,
                                        s.ws[w].pevents)
               IN IF r1.err \notin {"none", "EEXIST"}
                  THEN IoFail(s1, "io_poll:abort")
                  ELSE IF r1.err = "EEXIST" /\ op # "EPOLL_CTL_ADD"
                  THEN IoFail(s1, "io_poll:op")
                  ELSE IF r2.err # "none" THEN IoFail(s1, "io_poll:abort")
                  ELSE io_flush(
                         [s1 EXCEPT !.epoll = r2.ep,
                                    !.ws[w].events = s.ws[w].pevents,
                                    !.ops = Append(@,
                                      [w |-> w, op |-> op,
                                       retried |-> r1.err = "EEXIST",
                                       events |-> s.ws[w].events])])

\* uv__io_poll up to the dispatch loop: the wait returned the batch b.
io_poll(s, b) ==
  IF s.nfds = 0
  THEN IF s.watcher_queue # <<>> THEN IoFail(s, "io_poll:watcher_queue") ELSE s
  ELSE [io_flush(s) EXCEPT !.batch = b, !.stash = b # <<>>, !.closed = {},
                           !.grown = FALSE, !.nevents = 0]

\* The end of the dispatch loop: the stash is cleared.
DispatchEnd(s) ==
  IF s.batch = <<>> /\ ~s.in_cb
  THEN [s EXCEPT !.stash = FALSE, !.closed = {}, !.grown = FALSE]
  ELSE s

\* The mask uv__io_poll hands the callback of a watcher with pevents M for
\* the reported events R.
PollMask_mut_raw(R, M) ==
  LET m == R \cap (M \cup {POLLERR, POLLHUP})
  IN IF R = {POLLERR} \/ R = {POLLHUP} THEN m \cup (M \cap EventBits) ELSE m

PollMask(R, M) ==
  LET m == R \cap (M \cup {POLLERR, POLLHUP})
  IN IF m = {POLLERR} \/ m = {POLLHUP} THEN m \cup (M \cap EventBits) ELSE m

io_dispatch_mut_nodel(s, R) ==
  LET fd == Head(s.batch)
      s1 == [s EXCEPT !.batch = Tail(@), !.reached = [fd |-> fd, R |-> R]]
  IN IF fd = INVALID THEN s1
     ELSE IF fd < 0 \/ fd >= s.nwatchers THEN IoFail(s1, "io_poll:fd")
     ELSE LET w == s.watchers[fd + 1]
              r == epoll_ctl(s.epoll, "EPOLL_CTL_DEL", fd, {})
          IN IF w = NULL
             THEN s1
             ELSE LET m == PollMask(R, s.ws[w].pevents)
                  IN IF m # {}
                     THEN [s1 EXCEPT !.cb = [w |-> w, R |-> R,
                                             M |-> s.ws[w].pevents, mask |-> m],
                                     !.in_cb = TRUE, !.nevents = @ + 1]
                     ELSE s1

io_dispatch_mut_delabort(s, R) ==
  LET fd == Head(s.batch)
      s1 == [s EXCEPT !.batch = Tail(@), !.reached = [fd |-> fd, R |-> R]]
  IN IF fd = INVALID THEN s1
     ELSE IF fd < 0 \/ fd >= s.nwatchers THEN IoFail(s1, "io_poll:fd")
     ELSE LET w == s.watchers[fd + 1]
              r == epoll_ctl(s.epoll, "EPOLL_CTL_DEL", fd, {})
          IN IF w = NULL
             THEN IF r.err # "none" THEN IoFail(s1, "io_poll:abort")
                  ELSE [s1 EXCEPT !.epoll = r.ep, !.del = "ok"]
             ELSE LET m == PollMask(R, s.ws[w].pevents)
                  IN IF m # {}
                     THEN [s1 EXCEPT !.cb = [w |-> w, R |-> R,
                                             M |-> s.ws[w].pevents, mask |-> m],
                                     !.in_cb = TRUE, !.nevents = @ + 1]
                     ELSE s1

io_dispatch_mut_events(s, R) ==
  LET fd == Head(s.batch)
      s1 == [s EXCEPT !.batch = Tail(@), !.reached = [fd |-> fd, R |-> R]]
  IN IF fd = INVALID THEN s1
     ELSE IF fd < 0 \/ fd >= s.nwatchers THEN IoFail(s1, "io_poll:fd")
     ELSE LET w == s.watchers[fd + 1]
              r == epoll_ctl(s.epoll, "EPOLL_CTL_DEL", fd, {})
          IN IF w = NULL
             THEN [s1 EXCEPT !.epoll = r.ep,
                             !.del = IF r.err = "none" THEN "ok" ELSE r.err]
             ELSE LET m == PollMask(R, s.ws[w].events)
                  IN IF m # {}
                     THEN [s1 EXCEPT !.cb = [w |-> w, R |-> R,
                                             M |-> s.ws[w].pevents, mask |-> m],
                                     !.in_cb = TRUE, !.nevents = @ + 1]
                     ELSE s1

\* uv__io_poll, one event of the dispatch loop, reported with the bits R.
\* io.del: whether the step called epoll_ctl(EPOLL_CTL_DEL), and its result,
\* which the code does not look at.  io.reached: the event of the step.
\* io.nevents: the events of the batch that have been dispatched.
io_dispatch(s, R) ==
  LET fd == Head(s.batch)
      s1 == [s EXCEPT !.batch = Tail(@), !.reached = [fd |-> fd, R |-> R]]
  IN IF fd = INVALID THEN s1
     ELSE IF fd < 0 \/ fd >= s.nwatchers THEN IoFail(s1, "io_poll:fd")
     ELSE LET w == s.watchers[fd + 1]
              r == epoll_ctl(s.epoll, "EPOLL_CTL_DEL", fd, {})
          IN IF w = NULL
             THEN [s1 EXCEPT !.epoll = r.ep,
                             !.del = IF r.err = "none" THEN "ok" ELSE r.err]
             ELSE LET m == PollMask(R, s.ws[w].pevents)
                  IN IF m # {}
                     THEN [s1 EXCEPT !.cb = [w |-> w, R |-> R,
                                             M |-> s.ws[w].pevents, mask |-> m],
                                     !.in_cb = TRUE, !.nevents = @ + 1]
                     ELSE s1

NoEv == [fd |-> INVALID, R |-> {}]

NoIoCb == [w |-> NULL, R |-> {}, M |-> {}, mask |-> {}]

NoRt == [w |-> NULL, M |-> {}, nfds |-> 0, wq |-> <<>>, done |-> FALSE]

\* The fds the wait can report, and the batches it can return.
ReadyFds(s) == {fd \in Fds : s.epoll[fd] # {}}

IoBatches(s) ==
  {b \in UNION {[1..n -> ReadyFds(s)] : n \in 0..MaxBatch} :
     \A i, j \in 1..Len(b) : i # j => b[i] # b[j]}

FreeFds(s) == {fd \in Fds : \A v \in IoWatchers : s.ws[v].fd # fd}

IoRunning == io.fail = "none"

IoQuiet == UNCHANGED <<loop, hs, run, gh, abort, calc, fdst, wait>>

\* Where the owner of a watcher can make a call: outside uv__io_poll, or in
\* a callback of the batch being dispatched.
IoOwnerCtx == io.batch = <<>> \/ io.in_cb

\* A call made by the owner of a watcher: io.cb, the record of the last
\* delivery, holds only until the callback's first call or its return.
IoUser(s) ==
  [s EXCEPT !.cb = NoIoCb, !.rt = NoRt, !.ops = <<>>, !.del = "none",
            !.reached = NoEv,
            !.nevents = IF s.batch = <<>> /\ ~s.in_cb THEN 0 ELSE @]

\* A watcher that is initialised and idle: nothing asked for, nothing
\* registered, in no queue.
IdleW(s, w) ==
  /\ s.ws[w].fd # INVALID /\ s.ws[w].pevents = {} /\ s.ws[w].events = {}
  /\ ~Has(s.watcher_queue, w)

\* The owner initialises a watcher that is not started on a descriptor no
\* other watcher holds.
IoInitW(w, fd) ==
  /\ IoRunning /\ IoOwnerCtx /\ io.ws[w].fd = INVALID /\ fd \in FreeFds(io)
  /\ io' = IoUser(uv__io_init(io, w, fd)) /\ IoQuiet

\* io.rt remembers a start made on an idle watcher until the owner's next
\* call, and records when that call is the stop of the same events.
\* io.grown: a callback of the batch being dispatched has made the table
\* grow.
IoStart(w, events) ==
  /\ IoRunning /\ IoOwnerCtx /\ io.ws[w].fd # INVALID
  /\ io' = LET s0 == IoUser(io_start(io, w, events))
               s1 == IF io.in_cb /\ s0.nwatchers # io.nwatchers
                     THEN [s0 EXCEPT !.grown = TRUE] ELSE s0
           IN IF IdleW(io, w)
              THEN [s1 EXCEPT !.rt = [w |-> w, M |-> events, nfds |-> io.nfds,
                                      wq |-> io.watcher_queue, done |-> FALSE]]
              ELSE s1
  /\ IoQuiet

IoStop(w, events) ==
  /\ IoRunning /\ IoOwnerCtx
  /\ io' = LET s1 == IoUser(io_stop(io, w, events))
           IN IF io.rt.w = w /\ io.rt.M = events /\ ~io.rt.done
              THEN [s1 EXCEPT !.rt = [io.rt EXCEPT !.done = TRUE]]
              ELSE s1
  /\ IoQuiet

\* io.closed: the fds closed by a callback of the batch being dispatched
\* while the batch still held an event for them.
IoClose(w) ==
  /\ IoRunning /\ IoOwnerCtx /\ io.ws[w].fd # INVALID
  /\ io' = LET s1 == IoUser(fd_close(io_close(io, w), w))
           IN IF Has(io.batch, io.ws[w].fd)
              THEN [s1 EXCEPT !.closed = @ \cup {io.ws[w].fd}]
              ELSE s1
  /\ IoQuiet

\* Another thread closes the descriptor of a stopped watcher while a batch
\* that holds an event for it is being dispatched: the kernel drops the
\* descriptor from the epoll set, the batch is not touched.
FdClosedElsewhere(w) ==
  /\ IoRunning /\ io.batch # <<>> /\ IdleW(io, w)
  /\ Has(io.batch, io.ws[w].fd) /\ io.epoll[io.ws[w].fd] # {}
  /\ io' = [IoUser(io) EXCEPT !.epoll[io.ws[w].fd] = {}]
  /\ IoQuiet

IoPoll ==
  /\ IoRunning /\ io.batch = <<>> /\ ~io.in_cb
  /\ \E b \in IoBatches(io_flush(io)) : io' = io_poll(IoUser(io), b)
  /\ IoQuiet

IoDispatch ==
  /\ IoRunning /\ io.batch # <<>> /\ ~io.in_cb
  /\ \E R \in SUBSET (EventBits \cup {POLLERR, POLLHUP}) :
       /\ R # {}
       /\ Head(io.batch) \in Fds =>
            R \subseteq io.epoll[Head(io.batch)] \cup {POLLERR, POLLHUP}
       /\ Head(io.batch) \notin Fds => R = {POLLERR}
       /\ io' = DispatchEnd(io_dispatch(IoUser(io), R))
  /\ IoQuiet

IoCbReturn ==
  /\ IoRunning /\ io.in_cb
  /\ io' = DispatchEnd([IoUser(io) EXCEPT !.in_cb = FALSE]) /\ IoQuiet

IoInit0 ==
  [nwatchers |-> 0, watchers |-> <<>>, nfds |-> 0, watcher_queue |-> <<>>,
   ws |-> [w \in IoWatchers |-> [fd |-> INVALID, events |-> {}, pevents |-> {}]],
   epoll |-> [fd \in Fds |-> {}], batch |-> <<>>, cb |-> NoIoCb,
   in_cb |-> FALSE, stash |-> FALSE, closed |-> {}, grown |-> FALSE,
   rt |-> NoRt, ops |-> <<>>, del |-> "none", reached |-> NoEv,
   nevents |-> 0, fail |-> "none"]

\* -------------------------------------------------------- pure functions
\* A call of a function that reads no loop state: calc holds its argument,
\* its result and how far the caller has got.
NoCalc == [fn |-> "none", arg |-> 0, res |-> 0, pc |-> "done"]

NoFd == [fn |-> "none"]

NoWait == [pc |-> "out"]

\* ------------------------------------------------------------------- spec
Init0Loop ==
  [stop_flag |-> 0, active_handles |-> 0,
   active_reqs |-> 0, closing_handles |-> NULL, handle_queue |-> {},
   pending_queue |-> <<>>, idle_handles |-> <<>>,
   prepare_handles |-> <<>>, check_handles |-> <<>>, nfds |-> 0,
   batch |-> <<>>, signal_started |-> FALSE]

Init0Hs ==
  [h \in Handles |->
     [type |-> "UNKNOWN", flags |-> {}, close_cb |-> NOCB,
      next_closing |-> NULL, deadline |-> 0, trapped |-> 0,
      io_started |-> FALSE, nreqs |-> 0]]

Init0Run ==
  [pc |-> "out", mode |-> UV_RUN_DEFAULT, r |-> 0, ran_pending |-> 0,
   timeout |-> 0, real_timeout |-> 0, since |-> 0, pq |-> <<>>,
   lq |-> <<>>, lwph |-> "none", p |-> NULL, have_signals |-> 0,
   nevents |-> 0, cb |-> "none", cbh |-> NULL, cont |-> "none",
   cbev |-> {}, count |-> 0, nfds |-> 0, sigev |-> {}]

Init0Gh ==
  [cb_count |-> [h \in Handles |-> 0],
   closedIn |-> [h \in Handles |-> "never"],
   sameIter |-> [h \in Handles |-> FALSE],
   cbSame |-> [h \in Handles |-> FALSE],
   finSame |-> [h \in Handles |-> FALSE],
   trace |-> <<>>, closeOrder |-> <<>>, linkOrder |-> <<>>,
   finishOrder |-> <<>>, stopSeen |-> FALSE, entryAlive |-> FALSE,
   entryStop |-> FALSE, cb_ran |-> FALSE,
   fedIn |-> [h \in Handles |-> "none"],
   ranFed |-> [h \in Handles |-> "none"],
   pendStart |-> <<>>, pendRan |-> [h \in Handles |-> 0],
   batch0 |-> <<>>, polled |-> <<>>, pendCb |-> FALSE, nbatch |-> 0]

Init ==
  /\ loop = Init0Loop
  /\ hs = Init0Hs
  /\ run = Init0Run
  /\ gh = Init0Gh
  /\ abort = "none"
  /\ io = IoInit0
  /\ calc = NoCalc /\ fdst = NoFd /\ wait = NoWait

Next ==
  \/ \E h \in Handles : \E k \in KindChoices(h) : UserInit(h, k)
  \/ \E h \in Handles : \E delay \in 0..MaxDelay : UserStart(h, delay)
  \/ \E h \in Handles : UserStop(h)
  \/ \E h \in Handles : \E cb \in {CB, NOCB} : UserClose(h, cb)
  \/ UserStopLoop
  \/ \E h \in Handles : UserFeed(h)
  \/ \E h \in Handles : UserReq(h)
  \/ ReqComplete
  \/ \E h \in Handles : SignalCaught(h)
  \/ CbReturn
  \/ \E m \in Modes : UvRun(m)
  \/ LoopTop
  \/ RunTimers
  \/ RunPendingBegin
  \/ RunPending
  \/ RunLwBegin
  \/ RunLw
  \/ IoPollBegin
  \/ IoPollWaitNone
  \/ IoPollWaitEintr
  \/ IoPollWaitEvents
  \/ IoPollDispatch
  \/ IoPollSignal
  \/ RunClosingBegin
  \/ RunClosing
  \/ RunOnce
  \/ RunTimers2

Spec == Init /\ [][Next]_vars

NextIo ==
  \/ \E w \in IoWatchers : \E fd \in Fds : IoInitW(w, fd)
  \/ \E w \in IoWatchers : \E e \in StartMasks(w) : IoStart(w, e)
  \/ \E w \in IoWatchers : \E e \in StartMasks(w) : IoStop(w, e)
  \/ \E w \in IoWatchers : IoClose(w)
  \/ \E w \in IoWatchers : FdClosedElsewhere(w)
  \/ IoPoll
  \/ IoDispatch
  \/ IoCbReturn

SpecIo == Init /\ [][NextIo]_vars

\* A loop whose handles are all initialised streams: the pending queue and
\* the poll batch then hold several watchers.
RECURSIVE InitAll(_, _, _)
InitAll(w, S, k) ==
  IF S = {} THEN w
  ELSE LET h == CHOOSE h \in S : TRUE
       IN InitAll(uv_handle_init(w, h, k), S \ {h}, k)

TcpInit0 == InitAll([loop |-> Init0Loop, hs |-> Init0Hs], Handles, "UV_TCP")

AtTcpInit ==
  /\ loop = TcpInit0.loop
  /\ hs = TcpInit0.hs
  /\ run = Init0Run
  /\ gh = Init0Gh
  /\ abort = "none"

InitTcp ==
  /\ AtTcpInit
  /\ io = IoInit0
  /\ calc = NoCalc /\ fdst = NoFd /\ wait = NoWait

NextTcp ==
  \/ \E h \in Handles : UserStart(h, 0)
  \/ \E h \in Handles : UserStop(h)
  \/ \E h \in Handles : \E cb \in {CB, NOCB} : UserClose(h, cb)
  \/ UserStopLoop
  \/ \E h \in Handles : UserFeed(h)
  \/ \E h \in Handles : UserReq(h)
  \/ ReqComplete
  \/ CbReturn
  \/ \E m \in Modes : UvRun(m)
  \/ LoopTop
  \/ RunTimers
  \/ RunPendingBegin
  \/ RunPending
  \/ RunLwBegin
  \/ RunLw
  \/ IoPollBegin
  \/ IoPollWaitNone
  \/ IoPollWaitEintr
  \/ IoPollWaitEvents
  \/ IoPollDispatch
  \/ RunClosingBegin
  \/ RunClosing
  \/ RunOnce
  \/ RunTimers2

SpecTcp == InitTcp /\ [][NextTcp]_vars


\* A loop with one initialised stream and one initialised signal handle: a
\* poll batch then holds the signal watcher next to another watcher.
SigInit0 ==
  uv_handle_init(uv_handle_init([loop |-> Init0Loop, hs |-> Init0Hs],
                                1, "UV_TCP"), 2, "UV_SIGNAL")

InitSig ==
  /\ loop = SigInit0.loop
  /\ hs = SigInit0.hs
  /\ run = Init0Run
  /\ gh = Init0Gh
  /\ abort = "none"
  /\ io = IoInit0
  /\ calc = NoCalc /\ fdst = NoFd /\ wait = NoWait

NextSig ==
  \/ NextTcp
  \/ \E h \in Handles : SignalCaught(h)
  \/ IoPollSignal

SpecSig == InitSig /\ [][NextSig]_vars


\* The user releases the storage of handle h from within its close_cb: the
\* memory then holds anything. What the loop could still read from it is the
\* link n; the other fields read as those of storage never initialised.
uv_handle_free(w, h, n) ==
  [w EXCEPT !.hs[h] = [Init0Hs[h] EXCEPT !.next_closing = n]]

\* Every handle of this loop starts initialised, so storage that is not
\* initialised is storage the user released.
Freed(h) == ~Inited(h)

UserFree(h) ==
  /\ Running /\ run.cb = "closing" /\ run.cont = "none" /\ run.cbh = h
  /\ ~Freed(h)
  /\ \E n \in Handles \cup {NULL} : Apply(uv_handle_free(World, h, n))

NextFree ==
  \/ NextTcp
  \/ \E h \in Handles : UserFree(h)

SpecFree == InitTcp /\ [][NextFree]_vars

\* The loop of streams and the io watcher table, one of them at a time: the
\* loop driver runs while the table is untouched, the operations on the
\* table run while the loop driver has not started.
NextBoth ==
  \/ (io = IoInit0 /\ NextTcp)
  \/ (AtTcpInit /\ NextIo)

SpecBoth == InitTcp /\ [][NextBoth]_vars

\* The loop driver with timers, and the watcher table.
AtInit ==
  /\ loop = Init0Loop
  /\ hs = Init0Hs
  /\ run = Init0Run
  /\ gh = Init0Gh
  /\ abort = "none"

NextEntry ==
  \/ (io = IoInit0 /\ Next)
  \/ (AtInit /\ NextIo)

SpecEntry == Init /\ [][NextEntry]_vars

\* ------------------------------------------------- pure function calls
\* unsigned int values as bit sets: is A < B.
BitsLess(A, B) == \E i \in B \ A : \A j \in A \ B : j < i

\* The arguments next_power_of_two is tried on: 0..MaxVal, and around every
\* power of two up to 2^31.
Pow2Inputs ==
  {ToBits(n) : n \in 0..MaxVal}
    \cup {{k} : k \in UintBits}
    \cup {{j \in UintBits : j < k} : k \in UintBits}
    \cup {{0, k} : k \in 1..31}

InitPow2 ==
  /\ loop = Init0Loop /\ hs = Init0Hs /\ run = Init0Run /\ gh = Init0Gh
  /\ abort = "none" /\ io = IoInit0 /\ fdst = NoFd /\ wait = NoWait
  /\ calc \in {[fn |-> "next_power_of_two", arg |-> V, res |-> {},
                pc |-> "call"] : V \in Pow2Inputs}

CalcQuiet == UNCHANGED <<loop, hs, run, gh, abort, io, fdst, wait>>

CallNextPowerOfTwo ==
  /\ calc.fn = "next_power_of_two" /\ calc.pc = "call"
  /\ calc' = [calc EXCEPT !.res = next_power_of_two_bits(calc.arg),
                          !.pc = "done"]
  /\ CalcQuiet

NextPow2 == CallNextPowerOfTwo

SpecPow2 == InitPow2 /\ [][NextPow2]_vars

\* int, 32 bits wide.
INT_MAX == 2147483647
INT_MIN == (-2147483647) - 1

uv_translate_sys_error_mut_negate(sys_errno) ==
  IF sys_errno = INT_MIN THEN sys_errno ELSE -sys_errno

uv_translate_sys_error(sys_errno) ==
  IF sys_errno <= 0 THEN sys_errno ELSE -sys_errno

ErrnoInputs == ((-MaxErrno)..MaxErrno) \cup {INT_MAX, INT_MIN, INT_MIN + 1}

InitErr ==
  /\ loop = Init0Loop /\ hs = Init0Hs /\ run = Init0Run /\ gh = Init0Gh
  /\ abort = "none" /\ io = IoInit0 /\ fdst = NoFd /\ wait = NoWait
  /\ calc \in {[fn |-> "uv_translate_sys_error", arg |-> e, res |-> 0,
                res2 |-> 0, pc |-> "call"] : e \in ErrnoInputs}

\* The caller translates the errno, and may translate the result again.
CallTranslate ==
  /\ calc.fn = "uv_translate_sys_error" /\ calc.pc \in {"call", "once"}
  /\ calc' = IF calc.pc = "call"
             THEN [calc EXCEPT !.res = uv_translate_sys_error(calc.arg),
                               !.pc = "once"]
             ELSE [calc EXCEPT !.res2 = uv_translate_sys_error(calc.res),
                               !.pc = "twice"]
  /\ CalcQuiet

NextErr == CallTranslate

SpecErr == InitErr /\ [][NextErr]_vars


\* ------------------------------------------------------------ fd hygiene
\* The process's descriptor table: for each number whether it is open, and
\* its flags. A new descriptor takes the lowest free number.
FdNums == 0..MaxFdNum

FdFlags == {"O_NONBLOCK", "FD_CLOEXEC"}

FdClosed == [open |-> FALSE, fl |-> {}]

FreeFdNums(st) == {fd \in FdNums : ~st.tab[fd].open}

LowestFree(st) ==
  CHOOSE fd \in FreeFdNums(st) : \A g \in FreeFdNums(st) : fd <= g

UV__ERR(x) == -x

\* errno of a call that makes a descriptor: e as the kernel decides, EMFILE
\* when the table is full.
SysErr(st, e) == IF e = 0 /\ FreeFdNums(st) = {} THEN EMFILE ELSE e

\* socket, accept, accept4, open succeed with flags fl.
FdAlloc(st, fl) ==
  LET fd == LowestFree(st)
  IN [st EXCEPT !.tab[fd] = [open |-> TRUE, fl |-> fl], !.got = fd]

\* dup2 and dup3 succeed: newfd names oldfd's file; the status flag is the
\* file's, close-on-exec is the descriptor's.
FdDup(st, oldfd, newfd, fl) ==
  [st EXCEPT !.tab[newfd] =
               IF oldfd = newfd THEN @
               ELSE [open |-> TRUE,
                     fl |-> (st.tab[oldfd].fl \cap {"O_NONBLOCK"}) \cup fl],
             !.got = newfd]

FdEnter(st, fn) == [st EXCEPT !.fn = fn, !.got = -1, !.hyg = 0, !.ret = 0]

FdReturn(st, r) == [st EXCEPT !.ret = r, !.err = 0, !.pc = "done"]

uv__close_mut_noclose(st, fd) ==
  IF ~(fd > STDERR_FILENO) THEN [st EXCEPT !.pc = "abort"]
  ELSE st

uv__close(st, fd) ==
  IF ~(fd > STDERR_FILENO) THEN [st EXCEPT !.pc = "abort"]
  ELSE [st EXCEPT !.tab[fd] = FdClosed]

\* uv__nonblock(fd, 1) and uv__cloexec(fd, 1): e is the errno of the ioctl,
\* 0 when it succeeds. The result is left in err.
uv__nonblock(st, fd, e) ==
  IF e = 0 THEN [st EXCEPT !.tab[fd].fl = @ \cup {"O_NONBLOCK"}, !.err = 0]
  ELSE [st EXCEPT !.err = UV__ERR(e), !.hyg = e]

uv__cloexec(st, fd, e) ==
  IF e = 0 THEN [st EXCEPT !.tab[fd].fl = @ \cup {"FD_CLOEXEC"}, !.err = 0]
  ELSE [st EXCEPT !.err = UV__ERR(e), !.hyg = e]

\* if (err) { uv__close(fd); return err; } return r;
CloseOnErr(st, fd, r) ==
  IF st.err # 0
  THEN LET s1 == uv__close(st, fd)
       IN IF s1.pc = "abort" THEN s1 ELSE FdReturn(s1, st.err)
  ELSE FdReturn(st, r)

\* The syscall outcomes o of one call: the errno of the call that sets the
\* flags atomically (first), of the plain call (plain), and of the two
\* setters (nb, ce); a retry loop on EINTR or EBUSY ends with the outcome of
\* its last turn.
uv__socket(st, o) ==
  LET s0 == FdEnter(st, "uv__socket")
      e1 == SysErr(s0, o.first)
      e2 == SysErr(s0, o.plain)
  IN IF e1 = 0 THEN LET s1 == FdAlloc(s0, FdFlags) IN FdReturn(s1, s1.got)
     ELSE IF e1 # EINVAL THEN FdReturn(s0, UV__ERR(e1))
     ELSE IF e2 # 0 THEN FdReturn(s0, UV__ERR(e2))
     ELSE LET s1 == FdAlloc(s0, {})
              s2 == uv__nonblock(s1, s1.got, o.nb)
              s3 == IF s2.err = 0 THEN uv__cloexec(s2, s1.got, o.ce) ELSE s2
          IN CloseOnErr(s3, s1.got, s1.got)

uv__accept(st, sockfd, o) ==
  LET s0 == FdEnter(st, "uv__accept")
      e1 == SysErr(s0, o.first)
      e2 == SysErr(s0, o.plain)
      sk == [s0 EXCEPT !.no_accept4 = TRUE]
  IN IF ~(sockfd >= 0) THEN [s0 EXCEPT !.pc = "abort"]
     ELSE IF ~st.no_accept4 /\ e1 = 0
     THEN LET s1 == FdAlloc(s0, FdFlags) IN FdReturn(s1, s1.got)
     ELSE IF ~st.no_accept4 /\ e1 # ENOSYS THEN FdReturn(s0, UV__ERR(e1))
     ELSE IF e2 # 0 THEN FdReturn(sk, UV__ERR(e2))
     ELSE LET s1 == FdAlloc(sk, {})
              s2 == uv__cloexec(s1, s1.got, o.ce)
              s3 == IF s2.err = 0 THEN uv__nonblock(s2, s1.got, o.nb) ELSE s2
          IN CloseOnErr(s3, s1.got, s1.got)

uv__open_cloexec(st, o) ==
  LET s0 == FdEnter(st, "uv__open_cloexec")
      e1 == SysErr(s0, o.first)
      e2 == SysErr(s0, o.plain)
      sk == [s0 EXCEPT !.no_cloexec = TRUE]
  IN IF ~st.no_cloexec /\ e1 = 0
     THEN LET s1 == FdAlloc(s0, {"FD_CLOEXEC"}) IN FdReturn(s1, s1.got)
     ELSE IF ~st.no_cloexec /\ e1 # EINVAL THEN FdReturn(s0, UV__ERR(e1))
     ELSE IF e2 # 0 THEN FdReturn(sk, UV__ERR(e2))
     ELSE LET s1 == FdAlloc(sk, {})
              s2 == uv__cloexec(s1, s1.got, o.ce)
          IN CloseOnErr(s2, s1.got, s1.got)

\* dup3 fails with EINVAL when oldfd = newfd, and like dup2 with EBADF when
\* oldfd is not open.
uv__dup2_cloexec(st, oldfd, newfd, o) ==
  LET s0 == FdEnter(st, "uv__dup2_cloexec")
      bad == IF ~st.tab[oldfd].open THEN EBADF ELSE 0
      e1 == IF bad # 0 THEN bad
            ELSE IF o.first = 0 /\ oldfd = newfd THEN EINVAL ELSE o.first
      e2 == IF bad # 0 THEN bad ELSE o.plain
      sk == [s0 EXCEPT !.no_dup3 = TRUE]
  IN IF ~st.no_dup3 /\ e1 = 0
     THEN FdReturn(FdDup(s0, oldfd, newfd, {"FD_CLOEXEC"}), newfd)
     ELSE IF ~st.no_dup3 /\ e1 # ENOSYS THEN FdReturn(s0, UV__ERR(e1))
     ELSE IF e2 # 0 THEN FdReturn(sk, UV__ERR(e2))
     ELSE LET s1 == FdDup(sk, oldfd, newfd, {})
              s2 == uv__cloexec(s1, newfd, o.ce)
          IN CloseOnErr(s2, newfd, newfd)

\* The outcomes the kernel can give one call; the outcome of a call that is
\* not made is left 0.
Outcomes ==
  {o \in [first : {0, EINVAL, ENOSYS, EMFILE}, plain : {0, EMFILE},
          nb : {0, EBADF}, ce : {0, ENOTTY}] :
     /\ o.first = 0 => (o.plain = 0 /\ o.nb = 0 /\ o.ce = 0)
     /\ o.plain # 0 => (o.nb = 0 /\ o.ce = 0)}

\* stdin, stdout and stderr are open, and one listening socket.
FdInit0 ==
  [fn |-> "none", pc |-> "idle", ret |-> 0, got |-> -1, err |-> 0, hyg |-> 0,
   no_accept4 |-> FALSE, no_cloexec |-> FALSE, no_dup3 |-> FALSE,
   tab |-> [fd \in FdNums |->
              IF fd <= STDERR_FILENO THEN [open |-> TRUE, fl |-> {}]
              ELSE IF fd = STDERR_FILENO + 1 THEN [open |-> TRUE, fl |-> FdFlags]
              ELSE FdClosed]]

InitFd ==
  /\ loop = Init0Loop /\ hs = Init0Hs /\ run = Init0Run /\ gh = Init0Gh
  /\ abort = "none" /\ io = IoInit0 /\ calc = NoCalc /\ wait = NoWait
  /\ fdst = FdInit0

FdQuiet == UNCHANGED <<loop, hs, run, gh, abort, io, calc, wait>>

FdRunning == fdst.pc # "abort"

CallSocket ==
  /\ FdRunning
  /\ \E o \in Outcomes : fdst' = uv__socket(fdst, o)
  /\ FdQuiet

CallAccept ==
  /\ FdRunning
  /\ \E sockfd \in {fd \in FdNums : fdst.tab[fd].open} : \E o \in Outcomes :
       fdst' = uv__accept(fdst, sockfd, o)
  /\ FdQuiet

CallOpenCloexec ==
  /\ FdRunning
  /\ \E o \in {x \in Outcomes : x.nb = 0} : fdst' = uv__open_cloexec(fdst, o)
  /\ FdQuiet

CallDup2Cloexec ==
  /\ FdRunning
  /\ \E oldfd, newfd \in FdNums : \E o \in {x \in Outcomes : x.nb = 0} :
       fdst' = uv__dup2_cloexec(fdst, oldfd, newfd, o)
  /\ FdQuiet

\* The program closes a descriptor of its own between two calls.
UserCloseFd(fd) ==
  /\ FdRunning /\ fdst.tab[fd].open
  /\ fdst' = [fdst EXCEPT !.tab[fd] = FdClosed, !.fn = "none", !.pc = "idle",
                          !.ret = 0, !.got = -1, !.err = 0, !.hyg = 0]
  /\ FdQuiet

NextFd ==
  \/ CallSocket
  \/ CallAccept
  \/ CallOpenCloexec
  \/ CallDup2Cloexec
  \/ \E fd \in FdNums : UserCloseFd(fd)

SpecFd == InitFd /\ [][NextFd]_vars


\* ------------------------------------------------- the wait of uv__io_poll
\* uv__io_poll of a loop with watchers, from base = loop->time to its
\* return, without the callbacks: entry is the timeout passed in, dispatched
\* whether a batch of this call has invoked a callback, last the result of
\* the latest epoll_pwait, ctl the latest registration of the flush.
NoCtl == [op |-> "none", e1 |-> "none", e2 |-> "none"]

WaitInit0 ==
  [pc |-> "out", time |-> 0, base |-> 0, entry |-> 0, timeout |-> 0,
   real_timeout |-> 0, count |-> 0, dispatched |-> FALSE, restarts |-> 0,
   last |-> "none", ctl |-> NoCtl, now |-> 0]

io_poll_enter(ws, t) ==
  [ws EXCEPT !.pc = "wait", !.base = ws.time, !.entry = t, !.timeout = t,
             !.real_timeout = t, !.count = PollCount,
             !.dispatched = FALSE, !.restarts = 0, !.last = "none"]

\* One registration of the flush: epoll_ctl(op) fails with e1 ("none" when
\* it succeeds), and the EPOLL_CTL_MOD that follows EEXIST with e2.
flush_ctl(ws, op, e1, e2) ==
  LET w1 == [ws EXCEPT !.ctl = [op |-> op, e1 |-> e1,
                                e2 |-> IF e1 = "EEXIST" /\ op = "EPOLL_CTL_ADD"
                                       THEN e2 ELSE "none"]]
  IN IF e1 = "none" THEN w1
     ELSE IF e1 # "EEXIST" THEN [w1 EXCEPT !.pc = "abort"]
     ELSE IF op # "EPOLL_CTL_ADD" THEN [w1 EXCEPT !.pc = "abort"]
     ELSE IF e2 # "none" THEN [w1 EXCEPT !.pc = "abort"]
     ELSE w1

io_poll_return(ws) ==
  [ws EXCEPT !.pc = "ret", !.timeout = 0, !.real_timeout = 0, !.count = 0]

\* The update_timeout label: base is the time at entry, at every turn.
io_poll_update_timeout(ws) ==
  LET rt == ws.real_timeout - (ws.time - ws.base)
  IN IF ~(ws.timeout > 0) THEN [ws EXCEPT !.pc = "abort"]
     ELSE IF rt <= 0 THEN io_poll_return(ws)
     ELSE [ws EXCEPT !.real_timeout = rt, !.timeout = rt,
                     !.restarts = IF @ < 2 THEN @ + 1 ELSE @]

\* uv__update_time: loop->time becomes the reading of the monotonic clock
\* (wait.now).
update_time(ws) == [ws EXCEPT !.time = ws.now]

io_poll_turn_mut_notime(ws, d, res) ==
  LET w1 == [ws EXCEPT !.now = @ + d, !.last = res]
      nocb == IF w1.timeout = 0 THEN io_poll_return(w1)
              ELSE IF w1.timeout = -1 THEN w1
              ELSE io_poll_update_timeout(w1)
  IN CASE res = "none" ->
            IF w1.timeout = -1 THEN [w1 EXCEPT !.pc = "abort"] ELSE nocb
       [] res = "eintr" -> nocb
       [] res = "error" -> [w1 EXCEPT !.pc = "abort"]
       [] res = "stale" -> nocb
       [] res = "events" -> io_poll_return([w1 EXCEPT !.dispatched = TRUE])
       [] OTHER ->
            IF w1.count - 1 # 0
            THEN [w1 EXCEPT !.count = @ - 1, !.timeout = 0,
                            !.dispatched = TRUE]
            ELSE io_poll_return([w1 EXCEPT !.dispatched = TRUE])

io_poll_turn_mut_noabort(ws, d, res) ==
  LET w1 == update_time([ws EXCEPT !.now = @ + d, !.last = res])
      nocb == IF w1.timeout = 0 THEN io_poll_return(w1)
              ELSE IF w1.timeout = -1 THEN w1
              ELSE io_poll_update_timeout(w1)
  IN CASE res = "none" ->
            IF w1.timeout = -1 THEN [w1 EXCEPT !.pc = "abort"] ELSE nocb
       [] res = "eintr" -> nocb
       [] res = "error" -> nocb
       [] res = "stale" -> nocb
       [] res = "events" -> io_poll_return([w1 EXCEPT !.dispatched = TRUE])
       [] OTHER ->
            IF w1.count - 1 # 0
            THEN [w1 EXCEPT !.count = @ - 1, !.timeout = 0,
                            !.dispatched = TRUE]
            ELSE io_poll_return([w1 EXCEPT !.dispatched = TRUE])

\* One turn of for (;;): epoll_pwait returns res after the clock advanced by
\* d: "none" (0 events), "eintr", "error" (-1 with another errno), "stale"
\* (events, none of them dispatched), "events" (a callback ran), "full" (a
\* callback ran and the events array was filled).
io_poll_turn(ws, d, res) ==
  LET w1 == update_time([ws EXCEPT !.now = @ + d, !.last = res])
      nocb == IF w1.timeout = 0 THEN io_poll_return(w1)
              ELSE IF w1.timeout = -1 THEN w1
              ELSE io_poll_update_timeout(w1)
  IN CASE res = "none" ->
            IF w1.timeout = -1 THEN [w1 EXCEPT !.pc = "abort"] ELSE nocb
       [] res = "eintr" -> nocb
       [] res = "error" -> [w1 EXCEPT !.pc = "abort"]
       [] res = "stale" -> nocb
       [] res = "events" -> io_poll_return([w1 EXCEPT !.dispatched = TRUE])
       [] OTHER ->
            IF w1.count - 1 # 0
            THEN [w1 EXCEPT !.count = @ - 1, !.timeout = 0,
                            !.dispatched = TRUE]
            ELSE io_poll_return([w1 EXCEPT !.dispatched = TRUE])

InitWait ==
  /\ loop = Init0Loop /\ hs = Init0Hs /\ run = Init0Run /\ gh = Init0Gh
  /\ abort = "none" /\ io = IoInit0 /\ calc = NoCalc /\ fdst = NoFd
  /\ wait = WaitInit0

WaitQuiet == UNCHANGED <<loop, hs, run, gh, abort, io, calc, fdst>>

PollEnter ==
  /\ wait.pc \in {"out", "ret"}
  /\ \E t \in -1..MaxTimeout : wait' = io_poll_enter(wait, t)
  /\ WaitQuiet

\* With a timeout the kernel returns no event only when the timeout has
\* passed.
PollWaitNone ==
  /\ wait.pc = "wait" /\ wait.timeout # -1
  /\ \E d \in 0..MaxStep :
       /\ d >= wait.timeout /\ wait.now + d <= MaxTime
       /\ wait' = io_poll_turn(wait, d, "none")
  /\ WaitQuiet

PollWaitEarly ==
  /\ wait.pc = "wait"
  /\ \E d \in 0..MaxStep : \E res \in {"eintr", "stale", "events", "full"} :
       /\ wait.timeout >= 0 => d <= wait.timeout
       /\ wait.now + d <= MaxTime
       /\ wait' = io_poll_turn(wait, d, res)
  /\ WaitQuiet

NextWait ==
  \/ PollEnter
  \/ PollWaitNone
  \/ PollWaitEarly

SpecWait == InitWait /\ [][NextWait]_vars


\* uv__io_poll with the kernel's failures: the flush before the wait, whose
\* registrations can fail, and a wait that fails with an errno other than
\* EINTR.
CtlErrors == {"none", "EEXIST", "ENOENT", "ENOMEM"}

PollFlushBegin ==
  /\ wait.pc \in {"out", "ret"}
  /\ \E t \in -1..MaxTimeout :
       wait' = [wait EXCEPT !.pc = "flush", !.entry = t, !.ctl = NoCtl,
                            !.last = "none", !.dispatched = FALSE,
                            !.restarts = 0]
  /\ WaitQuiet

PollFlushCtl ==
  /\ wait.pc = "flush" /\ wait.ctl = NoCtl
  /\ \E op \in {"EPOLL_CTL_ADD", "EPOLL_CTL_MOD"}, e1, e2 \in CtlErrors :
       wait' = flush_ctl(wait, op, e1, e2)
  /\ WaitQuiet

PollFlushed ==
  /\ wait.pc = "flush"
  /\ wait' = io_poll_enter(wait, wait.entry)
  /\ WaitQuiet

PollWaitError ==
  /\ wait.pc = "wait"
  /\ \E d \in 0..MaxStep :
       /\ wait.timeout >= 0 => d <= wait.timeout
       /\ wait.now + d <= MaxTime
       /\ wait' = io_poll_turn(wait, d, "error")
  /\ WaitQuiet

NextPollErr ==
  \/ PollFlushBegin
  \/ PollFlushCtl
  \/ PollFlushed
  \/ PollWaitNone
  \/ PollWaitEarly
  \/ PollWaitError

SpecPollErr == InitWait /\ [][NextPollErr]_vars


\* The clock between two calls of uv__io_poll: the other phases of uv_run
\* take time, and uv_run updates loop->time at the top of an iteration.
ClockTick ==
  /\ wait.pc \in {"out", "ret"}
  /\ \E d \in 1..MaxStep :
       /\ wait.now + d <= MaxTime
       /\ wait' = [wait EXCEPT !.now = @ + d]
  /\ WaitQuiet

RunUpdateTime ==
  /\ wait.pc \in {"out", "ret"} /\ wait.time # wait.now
  /\ wait' = update_time(wait)
  /\ WaitQuiet

NextClock ==
  \/ PollEnter
  \/ PollWaitNone
  \/ PollWaitEarly
  \/ PollWaitError
  \/ ClockTick
  \/ RunUpdateTime

SpecClock == InitWait /\ [][NextClock]_vars

\* ----------------------------------------------------------------- claims
NoDup(q) == \A i, j \in 1..Len(q) : i # j => q[i] # q[j]

NonSignal(h) == hs[h].type # "UV_SIGNAL"

Returned(m) == run.pc = "ret" /\ run.mode = m

EarlyPhases == {"timers", "pending", "idle", "prepare", "poll", "check"}

\* C1: a non-signal handle closed with a callback has the callback invoked at
\* most once, and exactly once by the time uv_run(UV_RUN_DEFAULT) returns 0.
C1_CloseCbExactlyOnce ==
  \A h \in Handles :
    /\ gh.cb_count[h] <= 1
    /\ (/\ Returned(UV_RUN_DEFAULT) /\ run.r = 0
        /\ NonSignal(h) /\ "CLOSING" \in hs[h].flags /\ hs[h].close_cb = CB)
       => gh.cb_count[h] = 1

C1_Witness ==
  /\ Returned(UV_RUN_DEFAULT) /\ run.r = 0
  /\ \E h \in Handles : NonSignal(h) /\ gh.cb_count[h] = 1

\* C2 as stated: a close_cb never runs in the iteration its close() call was
\* made in, whatever phase the call was made from.
C2_NeverSameIteration ==
  \A h \in Handles :
    (gh.cb_count[h] >= 1 /\ gh.closedIn[h] \in EarlyPhases \cup {"closing", "timers2"})
      => ~gh.cbSame[h]

\* C2 amended: a close_cb runs only in a closing phase that begins after the
\* close() call: the closing phase of the same iteration for a non-signal
\* handle closed from the timers, pending, idle, prepare, poll or check phase,
\* and a later iteration's for a handle closed from a close_cb or after the
\* closing phase.
C2_NextClosingPhase ==
  \A h \in Handles :
    /\ (run.cb # "none" /\ run.cbh = h /\ run.cont = "none"
          /\ "CLOSED" \in hs[h].flags) => run.cb = "closing"
    /\ (gh.cb_count[h] >= 1 /\ gh.closedIn[h] \in {"closing", "timers2"})
         => ~gh.cbSame[h]
    /\ (gh.cb_count[h] >= 1 /\ gh.closedIn[h] \in EarlyPhases /\ NonSignal(h))
         => gh.cbSame[h]

C2_Witness ==
  \E h \in Handles :
    /\ run.cb = "closing" /\ run.cbh = h /\ run.cont = "none"
    /\ gh.closedIn[h] = "closing" /\ ~gh.cbSame[h] /\ gh.cb_count[h] = 1

\* C3: an iteration runs update time, timers, pending, idle, prepare, poll,
\* check, closing in this order (then time and timers again in once mode),
\* none skipped or repeated, and a callback belongs to the phase running.
ExpectedTrace(m) ==
  <<"time", "timers", "pending", "idle", "prepare", "poll", "check", "closing">>
    \o (IF m = UV_RUN_ONCE THEN <<"time", "timers">> ELSE <<>>)

C3_PhaseOrder ==
  /\ IsPrefix(gh.trace, ExpectedTrace(run.mode))
  /\ (run.pc \in {"top", "ret"} /\ gh.trace # <<>>)
       => gh.trace = ExpectedTrace(run.mode)
  /\ (run.cb # "none" /\ run.pc \notin {"out", "ret"})
       => (gh.trace # <<>> /\ run.cb = Last(gh.trace))

C3_Witness ==
  /\ Returned(UV_RUN_ONCE) /\ gh.trace = ExpectedTrace(UV_RUN_ONCE) /\ gh.cb_ran

\* C4: uv_run(UV_RUN_ONCE) entered on an alive loop with stop_flag clear has
\* invoked a user callback by the time it returns.
C4_OnceForwardProgress ==
  (Returned(UV_RUN_ONCE) /\ gh.entryAlive /\ ~gh.entryStop) => gh.cb_ran

\* C5: uv_run(UV_RUN_DEFAULT) returns 0 only with no active handle, no active
\* request and no closing handle; it returns non-zero only if stop_flag was
\* set before or during the call; on a loop that is not alive it runs no
\* phase and returns 0.
C5_DefaultReturn ==
  Returned(UV_RUN_DEFAULT) =>
    /\ run.r = 0 => /\ loop.active_handles = 0
                    /\ loop.active_reqs = 0
                    /\ loop.closing_handles = NULL
    /\ run.r # 0 => gh.stopSeen
    /\ ~gh.entryAlive => (run.r = 0 /\ gh.trace = <<>> /\ ~gh.cb_ran)

C5_Witness ==
  /\ Returned(UV_RUN_DEFAULT) /\ run.r = 0 /\ gh.trace # <<>> /\ gh.cb_ran
  /\ \E h \in Handles : "CLOSED" \in hs[h].flags

\* Where a handle closed from a close_cb waits: on loop.closing_handles, not
\* on the list the running closing phase took.
OnClosingList(h) == Has(ClosingList(World), h)

Snapshot == ChainFrom(World, run.p, NumHandles + 1)

ClosingPhaseOver == run.pc \in {"once", "timers2", "top", "ret"}

FromCloseCb(h) == gh.closedIn[h] = "closing"

ClosedFromCloseCbWaits(h) ==
  /\ "CLOSED" \in hs[h].flags => ~gh.finSame[h]
  /\ "CLOSED" \notin hs[h].flags =>
       /\ gh.sameIter[h] => (OnClosingList(h) /\ uv__loop_alive(World))
       /\ (~gh.sameIter[h] /\ ~(run.pc = "closing_loop" /\ Has(Snapshot, h)))
            => (OnClosingList(h) /\ uv__loop_alive(World))
       /\ (~gh.sameIter[h] /\ gh.trace # <<>>) => ~ClosingPhaseOver

\* C6 as stated, for every handle: a handle closed from a close_cb is not
\* finished by the running closing phase, stays on closing_handles (the loop
\* alive) and is finished by the next iteration's closing phase.
C6_AnyHandle ==
  \A h \in Handles : FromCloseCb(h) => ClosedFromCloseCbWaits(h)

\* C6 amended: the same for every handle that is not a signal handle.
C6_NonSignalHandle ==
  \A h \in Handles : (FromCloseCb(h) /\ NonSignal(h)) => ClosedFromCloseCbWaits(h)

C6_Witness ==
  \E h \in Handles :
    /\ FromCloseCb(h) /\ NonSignal(h) /\ "CLOSED" \in hs[h].flags
    /\ ~gh.finSame[h] /\ run.pc = "closing_loop"

Reversed(fin, order) ==
  \A i, j \in 1..Len(fin) :
    (i < j /\ Has(order, fin[i]) /\ Has(order, fin[j]))
      => Pos(order, fin[i]) > Pos(order, fin[j])

\* C7 as stated: a closing phase finishes handles in the reverse order of
\* their close() requests, each once, after the iteration's poll phase.
C7_ReverseOfCloseCalls ==
  /\ Reversed(gh.finishOrder, gh.closeOrder)
  /\ NoDup(gh.finishOrder)
  /\ gh.finishOrder # <<>> => (Has(gh.trace, "poll") /\ Last(gh.trace) # "poll")

\* C7 amended: in the reverse order in which they were linked into
\* closing_handles, which for handles that are not signal handles is the
\* order of their close() requests.
C7_ReverseOfLinking ==
  /\ Reversed(gh.finishOrder, gh.linkOrder)
  /\ Reversed(SelectSeq(gh.finishOrder, NonSignal), gh.closeOrder)
  /\ NoDup(gh.finishOrder)
  /\ \A i \in 1..Len(gh.finishOrder) : Has(gh.linkOrder, gh.finishOrder[i])
  /\ gh.finishOrder # <<>> =>
       (Has(gh.trace, "poll") /\ Has(gh.trace, "closing"))

C7_Witness ==
  /\ Len(gh.finishOrder) = 2 /\ run.pc = "closing_loop"
  /\ Pos(gh.closeOrder, gh.finishOrder[1]) > Pos(gh.closeOrder, gh.finishOrder[2])

\* C8: uv_close on a handle with CLOSING or CLOSED set fails its assertion
\* with the loop and every handle unchanged, and no handle is linked into
\* closing_handles twice.
C8_DoubleCloseAsserts ==
  /\ [][(abort = "none" /\ abort' # "none")
          => (abort' = "uv_close:closing" /\ loop' = loop /\ hs' = hs
              /\ \E h \in Handles : uv__is_closing(World, h))]_vars
  /\ [](NoDup(gh.linkOrder) /\ NoDup(ClosingList(World))
        /\ Len(ClosingList(World)) <= NumHandles)

C8_Witness ==
  /\ abort = "uv_close:closing"
  /\ \E h \in Handles : "CLOSED" \notin hs[h].flags /\ OnClosingList(h)

\* C9: CLOSED implies CLOSING; every handle on the closing list, and on the
\* list a closing phase took, has CLOSING set and CLOSED clear, so the
\* assertions of uv__finish_close and uv__make_close_pending hold; CLOSING is
\* never cleared.
C9_ClosingFlags ==
  /\ [](/\ \A h \in Handles :
             /\ "CLOSED" \in hs[h].flags => "CLOSING" \in hs[h].flags
             /\ (OnClosingList(h) \/ (run.pc = "closing_loop" /\ Has(Snapshot, h)))
                  => ("CLOSING" \in hs[h].flags /\ "CLOSED" \notin hs[h].flags)
        /\ abort \in {"none", "uv_close:closing"})
  /\ [][\A h \in Handles :
          "CLOSING" \in hs[h].flags => "CLOSING" \in hs'[h].flags]_vars

C9_Witness ==
  /\ run.pc = "closing_loop" /\ run.cb = "none" /\ abort = "none"
  /\ \E h, g \in Handles :
       /\ "CLOSED" \in hs[h].flags /\ "CLOSING" \in hs[h].flags
       /\ OnClosingList(g) /\ "CLOSED" \notin hs[g].flags

\* The four states of C10.
NotInitialized(h) == hs[h].type = "UNKNOWN" /\ h \notin loop.handle_queue

IsActive(h) == "ACTIVE" \in hs[h].flags

IsClosing(h) == "CLOSING" \in hs[h].flags /\ "CLOSED" \notin hs[h].flags

ClosedAndUnlinked(h) == "CLOSED" \in hs[h].flags /\ h \notin loop.handle_queue

Count(h, a, b, c, d) ==
  (IF a THEN 1 ELSE 0) + (IF b THEN 1 ELSE 0) + (IF c THEN 1 ELSE 0)
    + (IF d THEN 1 ELSE 0)

IsOpen(h) ==
  /\ hs[h].type # "UNKNOWN" /\ h \in loop.handle_queue
  /\ hs[h].flags \cap {"CLOSING", "CLOSED"} = {}

InDestroyer(h) == run.cb = "closing" /\ run.cont = "finish" /\ run.cbh = h

Slot(fd) ==
  IF fd >= 0 /\ fd < io.nwatchers THEN io.watchers[fd + 1] ELSE NULL

InWatcherQueue(w) == Has(io.watcher_queue, w)

\* C11: after every uv__io_start, uv__io_stop, uv__io_close and flush, a
\* watcher has pevents == 0 if and only if watchers[w.fd] is NULL (and the
\* slot of a watcher with pevents != 0 holds that watcher).
C11_PeventsIffSlot ==
  \A w \in IoWatchers :
    /\ (io.ws[w].pevents = {}) <=> (Slot(io.ws[w].fd) = NULL)
    /\ io.ws[w].pevents # {} => Slot(io.ws[w].fd) = w

C11_Witness ==
  \E w, v \in IoWatchers :
    /\ io.ws[w].fd # INVALID /\ io.ws[w].fd < io.nwatchers
    /\ io.ws[w].pevents = {} /\ io.epoll[io.ws[w].fd] # {}
    /\ io.ws[v].pevents # {} /\ io.ws[v].events # {}
    /\ io.ws[v].pevents # io.ws[v].events

\* C12 as stated: after every call, pevents == events if and only if the
\* watcher is not in watcher_queue.
C12_EqualIffNotQueued ==
  \A w \in IoWatchers :
    (io.ws[w].pevents = io.ws[w].events) <=> ~InWatcherQueue(w)

\* C12 amended: a watcher with pevents != events is in watcher_queue, and a
\* queued watcher has pevents != 0; a queued watcher may have pevents ==
\* events (a bit stopped and started again since the last flush).
C12_UnequalImpliesQueued ==
  \A w \in IoWatchers :
    /\ io.ws[w].pevents # io.ws[w].events => InWatcherQueue(w)
    /\ InWatcherQueue(w) => io.ws[w].pevents # {}
    /\ io.ws[w].pevents = {} => io.ws[w].events = {}

C12_Witness ==
  \E w \in IoWatchers :
    /\ InWatcherQueue(w) /\ io.ws[w].pevents = io.ws[w].events
    /\ io.ws[w].events = io.epoll[io.ws[w].fd]

\* C13: loop.nfds is the number of non-NULL entries of watchers[0..nwatchers).
C13_NfdsCountsSlots ==
  /\ Len(io.watchers) = io.nwatchers
  /\ io.nfds = Cardinality({i \in 1..io.nwatchers : io.watchers[i] # NULL})

C13_Witness ==
  /\ io.nwatchers = 6 /\ io.nfds = 1
  /\ \E w \in IoWatchers :
       /\ io.ws[w].fd # INVALID /\ io.ws[w].fd < 2
       /\ io.ws[w].pevents = {} /\ io.epoll[io.ws[w].fd] # {}

\* C14: after uv_stop from a callback of an iteration of
\* uv_run(UV_RUN_DEFAULT), the iteration's remaining phases still run, its
\* poll waits with timeout 0 if it has not yet computed the timeout, no
\* further iteration starts, and stop_flag is 0 when uv_run has returned.
C14_StopFromCallback ==
  /\ [](/\ (run.mode = UV_RUN_DEFAULT /\ run.pc = "poll_wait"
              /\ loop.stop_flag # 0) => run.timeout = 0
        /\ (Returned(UV_RUN_DEFAULT) /\ gh.stopSeen /\ ~gh.entryStop)
             => gh.trace = ExpectedTrace(UV_RUN_DEFAULT)
        /\ run.pc = "ret" => loop.stop_flag = 0)
  /\ [][(run.pc = "top" /\ loop.stop_flag # 0 /\ run' # run)
          => (run'.pc = "ret" /\ loop'.stop_flag = 0
              /\ gh'.trace = gh.trace)]_vars

C14_Witness ==
  /\ Returned(UV_RUN_DEFAULT) /\ gh.stopSeen /\ ~gh.entryStop /\ run.r # 0
  /\ gh.trace = ExpectedTrace(UV_RUN_DEFAULT) /\ loop.nfds > 0

\* C15: uv_run(UV_RUN_NOWAIT) on an alive loop with stop_flag clear runs one
\* iteration and no second one, its poll always waits with timeout 0, and it
\* may return without having invoked a callback.
C15_NowaitOneIteration ==
  run.mode = UV_RUN_NOWAIT =>
    /\ run.pc = "top" => gh.trace = <<>>
    /\ run.pc \in {"poll_wait", "poll_dispatch", "poll_signal"}
         => (run.timeout = 0 /\ run.real_timeout = 0)
    /\ (run.pc = "ret" /\ gh.entryAlive /\ ~gh.entryStop)
         => gh.trace = ExpectedTrace(UV_RUN_NOWAIT)

C15_Witness ==
  /\ Returned(UV_RUN_NOWAIT) /\ gh.entryAlive /\ ~gh.entryStop
  /\ gh.trace = ExpectedTrace(UV_RUN_NOWAIT) /\ ~gh.cb_ran
  /\ loop.nfds > 0 /\ ActiveTimers(World) # {}

SeqElems(q) == {q[i] : i \in 1..Len(q)}

\* C17: in a pending phase every watcher that was on pending_queue at its
\* start and is not closed during it has its callback invoked exactly once,
\* with POLLOUT; no other watcher's callback is invoked, so a watcher fed
\* during the drain waits on pending_queue for the next pending phase; and
\* uv__run_pending returns 1 iff the queue was not empty at its start.
C17_PendingDrain ==
  /\ [](/\ \A h \in Handles : gh.pendRan[h] <= 1
        /\ NoDup(gh.pendStart) /\ NoDup(loop.pending_queue)
        /\ run.cb = "pending"
             => (Has(gh.pendStart, run.cbh) /\ run.cbev = {"POLLOUT"}
                 /\ gh.pendRan[run.cbh] = 1)
        /\ run.pc = "pending_loop"
             => \A h \in SeqElems(run.pq) :
                  Has(gh.pendStart, h) /\ gh.pendRan[h] = 0
        /\ (run.pc = "pending_loop" /\ run.pq = <<>> /\ run.cb = "none")
             => \A h \in SeqElems(gh.pendStart) :
                  uv__is_closing(World, h) \/ gh.pendRan[h] = 1)
  /\ [][/\ (run.pc = "pending" /\ run'.pc # "pending")
             => IF loop.pending_queue = <<>>
                THEN run'.ran_pending = 0 /\ run'.pc = PhaseAfter("pending")
                ELSE /\ run'.pc = "pending_loop"
                     /\ run'.pq = loop.pending_queue
                     /\ loop'.pending_queue = <<>>
        /\ (run.pc = "pending_loop" /\ run'.pc # "pending_loop")
             => (run'.ran_pending = 1 /\ gh.pendStart # <<>>
                 /\ run.pq = <<>>)]_vars

C17_Witness ==
  /\ run.pc = "pending_loop" /\ run.pq = <<>> /\ run.cb = "none"
  /\ Len(gh.pendStart) = 2
  /\ \A h \in SeqElems(gh.pendStart) :
       gh.pendRan[h] = 1 /\ ~uv__is_closing(World, h)
  /\ loop.pending_queue # <<>>

\* C18: a callback deferred with uv__io_feed during iteration k is never
\* invoked by the pending phase of iteration k, whatever phase the feed was
\* made from: no pending callback runs for a feed of its own iteration.
C18_FeedNeverSameIteration ==
  \A h \in Handles : gh.ranFed[h] = "none"

\* C18 (amended): a callback deferred from the pending phase or a later
\* phase of iteration k is never invoked by the pending phase of iteration
\* k; one deferred from the timers phase, which precedes the pending phase,
\* is on pending_queue when the pending phase of iteration k starts.
C18_FeedAfterTimersDeferred ==
  /\ \A h \in Handles : gh.ranFed[h] # "after"
  /\ \A h \in Handles :
       (run.pc = "pending" /\ gh.fedIn[h] = "timers"
          /\ ~uv__is_closing(World, h))
         => Has(loop.pending_queue, h)

C18_Witness ==
  /\ run.cb = "pending"
  /\ gh.ranFed[run.cbh] = "timers"
  /\ gh.fedIn[run.cbh] = "after"
  /\ Has(loop.pending_queue, run.cbh)

\* C16: uv_backend_timeout returns 0 when stop_flag is set, when the loop
\* has neither active handles nor active requests, when idle_handles is not
\* empty, when pending_queue is not empty, or when closing_handles is not
\* NULL; otherwise -1 when no timer is active, else the distance to the
\* earliest timer, which is >= 0.  Computing it changes no loop state: the
\* step of uv_run that computes the poll timeout leaves the loop and its
\* handles as they were and stores the value the function gives.
C16_BackendTimeout ==
  /\ [](LET t == uv_backend_timeout(World)
            zero == \/ loop.stop_flag # 0
                    \/ (~uv__has_active_handles(World)
                          /\ ~uv__has_active_reqs(World))
                    \/ loop.idle_handles # <<>>
                    \/ loop.pending_queue # <<>>
                    \/ loop.closing_handles # NULL
        IN /\ zero => t = 0
           /\ (~zero /\ ActiveTimers(World) = {}) => t = -1
           /\ (~zero /\ ActiveTimers(World) # {})
                => /\ t >= 0
                   /\ \E h \in ActiveTimers(World) : t = hs[h].deadline
                   /\ \A h \in ActiveTimers(World) : t <= hs[h].deadline)
  /\ [][(run.pc = "poll" /\ run'.pc = "poll_wait")
          => /\ loop' = loop /\ hs' = hs
             /\ run'.timeout = uv_run_timeout(World)
             /\ (run.mode = UV_RUN_DEFAULT
                   => run'.timeout = uv_backend_timeout(World))]_vars

C16_Witness ==
  /\ run.pc = "poll_wait" /\ run.mode = UV_RUN_DEFAULT /\ run.since = 0
  /\ run.cb = "none" /\ run.timeout > 0
  /\ run.timeout = uv_backend_timeout(World)
  /\ loop.stop_flag = 0 /\ loop.idle_handles = <<>>
  /\ \E h \in ActiveTimers(World) : hs[h].deadline = run.timeout

\* C19: for a ready event reported with the bits R to a watcher whose
\* pevents is M, the mask handed to the callback is R & (M | ERR | HUP),
\* except when R is exactly ERR or exactly HUP: then M's read/write bits are
\* OR-ed in.  In every other case no bit outside R is delivered.
C19_MaskOfReturned ==
  io.cb # NoIoCb =>
    LET R == io.cb.R
        M == io.cb.M
    IN IF R = {POLLERR} \/ R = {POLLHUP}
       THEN io.cb.mask = R \cup (M \cap EventBits)
       ELSE /\ io.cb.mask = R \cap (M \cup {POLLERR, POLLHUP})
            /\ io.cb.mask \subseteq R

\* C19 (amended): the mask handed to the callback is m = R & (M | ERR | HUP),
\* except when m, not R, is exactly ERR or exactly HUP: then M's read, write,
\* read-hangup and priority bits are OR-ed in.  No bit outside R is delivered
\* in any other case, and a callback is never handed an empty mask.
C19_MaskOfMasked ==
  io.cb # NoIoCb =>
    LET R == io.cb.R
        M == io.cb.M
        m == R \cap (M \cup {POLLERR, POLLHUP})
    IN /\ io.cb.mask # {}
       /\ M = io.ws[io.cb.w].pevents
       /\ IF m = {POLLERR} \/ m = {POLLHUP}
          THEN io.cb.mask =
                 m \cup (M \cap {POLLIN, POLLOUT, UV__POLLRDHUP, UV__POLLPRI})
          ELSE io.cb.mask = m /\ io.cb.mask \subseteq R

C19_Witness ==
  /\ io.cb # NoIoCb
  /\ io.cb.R = {POLLERR, POLLIN}
  /\ io.cb.M = {POLLOUT}
  /\ io.cb.mask = {POLLERR, POLLOUT}

\* C20: whenever the only bits of a ready event are error and/or hangup bits
\* (ERR alone, HUP alone, or ERR and HUP together), the watcher's pending
\* read, write, read-hangup and priority bits are in the mask handed to its
\* callback.
C20_ErrHupPromotion ==
  (io.cb # NoIoCb /\ io.cb.R # {} /\ io.cb.R \subseteq {POLLERR, POLLHUP})
    => (io.cb.M \cap EventBits) \subseteq io.cb.mask

\* C26: for every 32-bit unsigned v with 1 <= v <= 2^31,
\* next_power_of_two(v) is the smallest power of two that is >= v, all
\* arithmetic being modulo 2^32: 1 -> 1, 2 -> 2, 3 -> 4, 513 -> 1024,
\* 2^31 -> 2^31.
C26_NextPowerOfTwo ==
  (calc.fn = "next_power_of_two" /\ calc.pc = "done"
     /\ calc.arg # {} /\ ~BitsLess({31}, calc.arg))
    => /\ \E k \in UintBits :
            /\ calc.res = {k}
            /\ ~BitsLess({k}, calc.arg)
            /\ k > 0 => BitsLess({k - 1}, calc.arg)
       /\ calc.arg = ToBits(1) => calc.res = ToBits(1)
       /\ calc.arg = ToBits(2) => calc.res = ToBits(2)
       /\ calc.arg = ToBits(3) => calc.res = ToBits(4)
       /\ calc.arg = ToBits(513) => calc.res = ToBits(1024)
       /\ calc.arg = {31} => calc.res = {31}

C26_Witness ==
  /\ calc.fn = "next_power_of_two" /\ calc.pc = "done"
  /\ calc.arg = {0, 30} /\ calc.res = {31}

\* C27: uv_translate_sys_error(e) returns -e for every e > 0 and e itself
\* for every e <= 0, and applying it twice gives what applying it once
\* gives.
C27_TranslateSysError ==
  /\ (calc.fn = "uv_translate_sys_error" /\ calc.pc \in {"once", "twice"})
       => /\ calc.arg > 0 => calc.res = -calc.arg
          /\ calc.arg <= 0 => calc.res = calc.arg
  /\ (calc.fn = "uv_translate_sys_error" /\ calc.pc = "twice")
       => calc.res2 = calc.res

C27_Witness ==
  /\ calc.fn = "uv_translate_sys_error" /\ calc.pc = "twice"
  /\ calc.arg = MaxErrno /\ calc.res = -MaxErrno /\ calc.res2 = -MaxErrno

\* C24: for an idle watcher w (pevents = 0, events = 0, in no queue),
\* uv__io_start(w, M) immediately followed by uv__io_stop(w, M) restores
\* that state: pevents = 0, events = 0, w not queued, watchers[w.fd] NULL
\* and nfds (and watcher_queue) as before the start.
C24_StartStopRoundTrip ==
  io.rt.done =>
    /\ io.fail = "none"
    /\ IdleW(io, io.rt.w)
    /\ Slot(io.ws[io.rt.w].fd) = NULL
    /\ io.nfds = io.rt.nfds
    /\ io.watcher_queue = io.rt.wq

C24_Witness ==
  /\ io.rt.done /\ io.rt.nfds > 0 /\ io.rt.wq # <<>>
  /\ io.nfds = io.rt.nfds /\ IdleW(io, io.rt.w)

\* C29: if a watcher registered with the backend has its pevents reduced to
\* 0 by uv__io_stop, then at the next backend wait its fd is no longer in
\* the backend's registration set: when uv__io_poll is about to wait with
\* nothing left to flush, every registered fd has a watcher in its slot.
C29_StoppedFdDropped ==
  (io.fail = "none" /\ io.batch = <<>> /\ ~io.in_cb
     /\ io.watcher_queue = <<>> /\ io.nfds # 0)
    => \A fd \in Fds : io.epoll[fd] # {} => Slot(fd) # NULL

\* C29 (amended): the fd of a watcher stopped to pevents = 0 stays in the
\* backend's registration set until the backend reports an event for it:
\* the dispatch loop then finds watchers[fd] NULL, removes the fd from the
\* set and invokes no callback.  uv__io_close removes the fd from the set at
\* once.  No callback is ever invoked for a watcher whose pevents is 0.
C29_StoppedFdDroppedLazily ==
  /\ [](io.cb # NoIoCb => (io.cb.M # {} /\ io.ws[io.cb.w].pevents # {}))
  /\ [][/\ (io.fail = "none" /\ io.batch # <<>> /\ ~io.in_cb
              /\ Head(io.batch) \in Fds /\ Slot(Head(io.batch)) = NULL
              /\ io'.batch # io.batch)
             => (io'.epoll[Head(io.batch)] = {} /\ ~io'.in_cb
                 /\ io'.batch = Tail(io.batch))
        /\ \A w \in IoWatchers :
             (io.ws[w].fd # INVALID /\ io'.ws[w].fd = INVALID)
               => io'.epoll[io.ws[w].fd] = {}]_vars

C29_Witness ==
  /\ io.fail = "none" /\ io.batch # <<>> /\ ~io.in_cb
  /\ Head(io.batch) \in Fds /\ Slot(Head(io.batch)) = NULL
  /\ io.epoll[Head(io.batch)] # {}
  /\ \E w \in IoWatchers : io.ws[w].fd = Head(io.batch) /\ IdleW(io, w)

\* C30: immediately after the flush at the start of uv__io_poll,
\* watcher_queue is empty and every flushed watcher has
\* events == pevents # 0 with the backend's mask for its fd equal to
\* pevents; the operation issued was ADD iff events was 0; an ADD that
\* failed with EEXIST was retried as MOD and ended in the same state; and
\* the flush's assertions (pevents # 0, 0 <= fd < nwatchers) never fail.
C30_FlushPostcondition ==
  /\ io.fail \notin {"io_poll:pevents", "io_poll:fd", "io_poll:op",
                     "io_poll:abort", "io_poll:watcher_queue"}
  /\ io.ops # <<>> =>
       /\ io.watcher_queue = <<>>
       /\ \A i \in 1..Len(io.ops) :
            LET o == io.ops[i]
                w == io.ws[o.w]
            IN /\ w.events = w.pevents /\ w.pevents # {}
               /\ w.fd >= 0 /\ w.fd < io.nwatchers
               /\ io.epoll[w.fd] = w.pevents
               /\ (o.op = "EPOLL_CTL_ADD") <=> (o.events = {})
               /\ o.retried => o.op = "EPOLL_CTL_ADD"
               /\ \A j \in 1..Len(io.ops) : io.ops[j].w = o.w => j = i

C30_Witness ==
  /\ Len(io.ops) = 2
  /\ io.ops[1].retried /\ io.ops[2].op = "EPOLL_CTL_MOD"
  /\ io.watcher_queue = <<>> /\ io.fail = "none"

\* C22: if, during the dispatch of a poll batch, the callback for event i
\* closes a watcher whose fd also has an event j > i in the batch, no
\* callback is invoked for event j in this batch, neither the closed
\* watcher's nor that of a watcher started on the same fd number before
\* event j is reached; and the close_cb of the closed handle fires in the
\* closing phase of the same iteration.
C22_CloseInBatch ==
  /\ [](/\ io.cb # NoIoCb => io.ws[io.cb.w].fd \notin io.closed
        /\ \A fd \in io.closed : ~Has(io.batch, fd)
        /\ \A h \in Handles :
             /\ (run.cb = "poll" /\ run.cbh = h /\ gh.closedIn[h] = "poll")
                  => gh.cb_count[h] = 0 /\ ~Has(loop.batch, h)
             /\ (gh.cb_count[h] >= 1 /\ gh.closedIn[h] = "poll")
                  => gh.cbSame[h]
             /\ (run.cb # "none" /\ run.cbh = h /\ run.cont = "none"
                   /\ "CLOSED" \in hs[h].flags) => run.cb = "closing")
  /\ [][(run.cb = "none" /\ run'.cb = "poll")
          => (~uv__is_closing(World, run'.cbh)
              /\ loop.batch # <<>> /\ run'.cbh = Head(loop.batch))]_vars

C22_Witness ==
  /\ io.batch # <<>> /\ Head(io.batch) = INVALID /\ io.fail = "none"
  /\ \E fd \in io.closed :
       /\ Slot(fd) # NULL
       /\ io.ws[Slot(fd)].pevents # {}

RECURSIVE IsSubSeq(_, _)
IsSubSeq(a, b) ==
  IF a = <<>> THEN TRUE
  ELSE IF b = <<>> THEN FALSE
  ELSE IF Head(a) = Head(b) THEN IsSubSeq(Tail(a), Tail(b))
  ELSE IsSubSeq(a, Tail(b))

\* C21: within one poll batch the callbacks are invoked in the order the
\* backend returned the events, except that the signal io watcher's callback
\* is invoked after every other callback of the batch, with POLLIN; after it
\* has run, uv__io_poll returns without waiting again, even if the batch
\* filled the events array.
C21_SignalWatcherLast ==
  /\ [](/\ IsSubSeq(gh.polled, SelectSeq(gh.batch0, LAMBDA e : e # SIGW))
        /\ IsSubSeq(Without(loop.batch, INVALID), gh.batch0)
        /\ (run.cb = "poll" /\ run.cont = "none")
             => (gh.polled # <<>> /\ run.cbh = Last(gh.polled)
                 /\ run.pc = "poll_dispatch" /\ ~Has(loop.batch, run.cbh))
        /\ run.pc = "poll_signal"
             => (loop.batch = <<>> /\ Has(gh.batch0, SIGW)
                 /\ run.have_signals = 1 /\ run.sigev = {"POLLIN"})
        /\ (run.cb = "poll" /\ run.cont = "signal") => run.pc = "poll_signal"
        /\ run.pc # "poll_signal" => run.sigev = {})
  /\ [][/\ (run.pc = "poll_signal" /\ run'.pc # "poll_signal")
             => run'.pc = PhaseAfter("poll")
        /\ (run.pc = "poll_dispatch" /\ run'.pc = "poll_signal")
             => (loop.batch = <<>> /\ run.cb = "none")
        /\ (run.pc = "poll_dispatch" /\ run.have_signals # 0
              /\ run'.pc # "poll_dispatch")
             => run'.pc = "poll_signal"]_vars

C21_Witness ==
  /\ run.pc = "poll_signal" /\ run.cb = "poll" /\ run.cont = "signal"
  /\ Len(gh.batch0) = EventsSize /\ gh.batch0[1] = SIGW
  /\ Len(gh.polled) = 1 /\ run.count > 1

\* C23: uv__finish_close sets CLOSED, runs the stream destroyer (the requests
\* in flight complete), unrefs and unlinks the handle, and calls close_cb
\* last; uv__run_closing_handles reads next_closing before it finishes a
\* handle. So while a request of the handle completes the handle is CLOSED,
\* still linked and its close_cb has not run; in close_cb the handle is
\* unlinked with no request left and the traversal no longer points at it; and
\* once the user released the handle in close_cb the loop neither follows a
\* pointer to it nor changes it.
C23_FinishCloseOrder ==
  /\ []((run.cb = "closing" /\ run.cont = "finish")
          => /\ "CLOSED" \in hs[run.cbh].flags
             /\ run.cbh \in loop.handle_queue
             /\ gh.cb_count[run.cbh] = 0
             /\ hs[run.cbh].nreqs = 0)
  /\ []((run.cb = "closing" /\ run.cont = "none" /\ ~Freed(run.cbh))
          => /\ "CLOSED" \in hs[run.cbh].flags
             /\ run.cbh \notin loop.handle_queue
             /\ hs[run.cbh].nreqs = 0
             /\ gh.cb_count[run.cbh] = 1)
  /\ [](run.pc = "closing_loop" /\ run.p # NULL
          => /\ ~Freed(run.p)
             /\ ~(run.cb = "closing" /\ run.cbh = run.p)
             /\ hs[run.p].flags \cap {"CLOSING", "CLOSED"} = {"CLOSING"})
  /\ [](\A h \in Handles :
          Freed(h) => (loop.closing_handles # h /\ h \notin loop.handle_queue
                       /\ ~Has(loop.pending_queue, h)
                       /\ \A g \in Handles :
                            (~Freed(g) /\ "CLOSING" \in hs[g].flags
                               /\ "CLOSED" \notin hs[g].flags)
                              => hs[g].next_closing # h))
  /\ [](abort \notin {"finish_close:CLOSING", "finish_close:CLOSED"})
  /\ [][\A h \in Handles : Freed(h) => hs'[h] = hs[h]]_vars

C23_Witness ==
  /\ run.cb = "closing" /\ run.cont = "finish"
  /\ \E h \in Handles : Freed(h) /\ gh.closeOrder = <<run.cbh, h>>

\* C25: in uv__socket, uv__accept, uv__open_cloexec and uv__dup2_cloexec,
\* when a descriptor has been obtained and a later step that sets
\* non-blocking or close-on-exec fails, the call returns the negated errno of
\* that step with the descriptor closed; no call that returns an error leaves
\* the descriptor it obtained open; and a call that succeeds returns an open
\* descriptor with close-on-exec set, and for socket and accept also
\* non-blocking.
C25_FdHygiene ==
  /\ fdst.hyg # 0
       => /\ fdst.pc = "done"
          /\ fdst.ret = UV__ERR(fdst.hyg)
          /\ fdst.got # -1 /\ ~fdst.tab[fdst.got].open
  /\ (fdst.pc = "done" /\ fdst.ret < 0 /\ fdst.got # -1)
       => ~fdst.tab[fdst.got].open
  /\ (fdst.pc = "done" /\ fdst.ret >= 0)
       => /\ fdst.ret = fdst.got
          /\ fdst.tab[fdst.ret].open
          /\ "FD_CLOEXEC" \in fdst.tab[fdst.ret].fl
          /\ fdst.fn \in {"uv__socket", "uv__accept"}
               => "O_NONBLOCK" \in fdst.tab[fdst.ret].fl

\* The contract of C25 holds for descriptors above stderr, which uv__close
\* accepts.
FdHygieneAboveStdio ==
  (fdst.got > STDERR_FILENO \/ fdst.got = -1) => C25_FdHygiene

FdHygieneAboveStdioReached ==
  /\ fdst.pc = "done" /\ fdst.hyg # 0 /\ fdst.got > STDERR_FILENO
  /\ fdst.fn = "uv__accept"

\* C28: a poll entered with a timeout T > 0 in which no event is dispatched
\* returns only when the loop's time has advanced by at least T since the
\* entry, and each restarted wait is given exactly the remaining budget, T
\* minus the time elapsed since the entry.
C28_FullBudget ==
  /\ []((wait.pc = "ret" /\ wait.entry > 0 /\ ~wait.dispatched)
          => wait.time - wait.base >= wait.entry)
  /\ [][(wait.pc = "wait" /\ wait'.pc = "wait" /\ wait.entry > 0
           /\ ~wait'.dispatched)
          => wait'.timeout = wait.entry - (wait'.time - wait.base)]_vars

\* What the code keeps of it: the first restarted wait gets the remaining
\* budget, a poll that returns before its second restart has waited T, and
\* no wait is given more than the remaining budget.
WaitBudgetFirstRestart ==
  /\ []((wait.pc = "ret" /\ wait.entry > 0 /\ ~wait.dispatched
           /\ wait.restarts = 0)
          => wait.time - wait.base >= wait.entry)
  /\ []((wait.pc = "wait" /\ wait.entry > 0 /\ ~wait.dispatched)
          => /\ wait.timeout <= wait.entry - (wait.time - wait.base)
             /\ wait.restarts <= 1
                  => wait.timeout = wait.entry - (wait.time - wait.base))
  /\ [](wait.pc # "abort")

WaitBudgetSecondRestartReached ==
  /\ wait.pc = "wait" /\ wait.entry > 0 /\ ~wait.dispatched
  /\ wait.restarts = 2
  /\ wait.timeout < wait.entry - (wait.time - wait.base)

\* C31: when stop_flag is set at the call of uv_run on an alive loop, that
\* call runs no phase and no callback, returns non-zero and leaves stop_flag
\* cleared; the next call of uv_run finds stop_flag 0 and, the loop being
\* alive, enters its first iteration.
C31_StopBeforeRun ==
  /\ []((gh.entryStop /\ gh.entryAlive /\ run.pc # "out")
          => /\ run.pc \in {"top", "ret"}
             /\ gh.trace = <<>> /\ ~gh.cb_ran /\ run.cb = "none"
             /\ run.r # 0
             /\ run.pc = "ret" => loop.stop_flag = 0)
  /\ [][/\ (gh.entryStop /\ gh.entryAlive /\ run.pc = "top" /\ run' # run)
             => (run'.pc = "ret" /\ loop'.stop_flag = 0)
        /\ (gh.entryStop /\ run.pc = "ret" /\ run'.pc = "top")
             => (~gh'.entryStop /\ loop'.stop_flag = 0)
        /\ (~gh.entryStop /\ gh.entryAlive /\ run.pc = "top"
              /\ gh.trace = <<>> /\ run' # run)
             => (run'.pc = "timers" /\ gh'.trace = <<"time", "timers">>)]_vars

C31_Witness ==
  /\ run.pc = "ret" /\ gh.entryStop /\ gh.entryAlive
  /\ run.r # 0 /\ loop.stop_flag = 0

\* C32: uv__io_poll waits with a non-zero timeout only in default mode, or in
\* once mode when the pending phase of this iteration ran no callback; and
\* then stop_flag is 0, the loop has an active handle or request, and
\* pending_queue, the idle queue and closing_handles are empty.
C32_NoBlockingWithWork ==
  /\ []((run.pc = "poll_wait" /\ run.timeout # 0)
          => /\ run.mode = UV_RUN_DEFAULT
                  \/ (run.mode = UV_RUN_ONCE /\ ~gh.pendCb)
             /\ run.cb = "none"
             /\ loop.stop_flag = 0
             /\ uv__has_active_handles(World) \/ uv__has_active_reqs(World)
             /\ loop.pending_queue = <<>>
             /\ loop.idle_handles = <<>>
             /\ loop.closing_handles = NULL)
  /\ [][(run.pc = "poll" /\ run'.pc = "poll_wait" /\ run'.timeout # 0)
          => /\ run.mode = UV_RUN_DEFAULT
                  \/ (run.mode = UV_RUN_ONCE /\ run.ran_pending = 0)
             /\ run'.timeout = uv__next_timeout(World)]_vars

C32_Witness ==
  /\ run.pc = "poll_wait" /\ run.timeout > 0 /\ run.mode = UV_RUN_ONCE
  /\ \E h \in Handles : hs[h].type = "UV_TCP" /\ hs[h].io_started

\* C33: within one poll phase at most count batches are dispatched (48 in
\* the source): after a batch with a dispatched event the wait is repeated,
\* with timeout 0, only if the batch filled the events array and fewer than
\* count batches were taken; after a smaller batch, or after the last full
\* batch, uv__io_poll returns.
C33_BoundedBatches ==
  /\ [](gh.nbatch <= PollCount)
  /\ [][/\ (run.pc = "poll_dispatch" /\ run'.pc = "poll_wait")
             => /\ run.nevents # 0 /\ run.have_signals = 0
                /\ run.nfds = EventsSize /\ gh.nbatch < PollCount
                /\ run'.timeout = 0
        /\ (run.pc = "poll_dispatch" /\ run.cb = "none" /\ loop.batch = <<>>
              /\ run.nevents # 0
              /\ (run.nfds < EventsSize \/ gh.nbatch = PollCount))
             => run'.pc = PhaseAfter("poll")
        /\ (run.pc = "poll_dispatch" /\ run.cb = "none" /\ loop.batch = <<>>
              /\ run.nevents # 0 /\ run.have_signals = 0
              /\ run.nfds = EventsSize /\ gh.nbatch < PollCount)
             => (run'.pc = "poll_wait" /\ run'.timeout = 0)]_vars

C33_Witness ==
  /\ gh.nbatch = PollCount /\ run.pc = "poll_dispatch" /\ run.cb = "none"
  /\ loop.batch = <<>> /\ run.nevents = EventsSize /\ run.nfds = EventsSize

\* C34: an epoll_pwait that fails with EINTR invokes no callback and is
\* handled like a wait without events in the same timeout mode: with timeout
\* -1 the wait is restarted, with timeout 0 uv__io_poll returns, with a
\* timeout > 0 the budget is recomputed at update_timeout; a wait that fails
\* with another errno aborts, and so does a registration of the flush that
\* fails, unless it is an EPOLL_CTL_ADD that failed with EEXIST and whose
\* EPOLL_CTL_MOD succeeds.
C34_EintrAndAbort ==
  /\ [][(wait.pc = "wait" /\ wait' # wait /\ wait'.last \in {"eintr", "none"})
          => /\ wait'.dispatched = wait.dispatched
             /\ wait.timeout = -1
                  => (wait'.last = "eintr" /\ wait'.pc = "wait"
                      /\ wait'.timeout = -1)
             /\ wait.timeout = 0 => wait'.pc = "ret"
             /\ wait.timeout > 0
                  => LET rt == wait.real_timeout - (wait'.time - wait.base)
                     IN IF rt <= 0 THEN wait'.pc = "ret"
                        ELSE /\ wait'.pc = "wait"
                             /\ wait'.timeout = rt
                             /\ wait'.real_timeout = rt]_vars
  /\ [][(wait.pc = "wait" /\ wait'.pc = "abort") <=>
          (wait.pc = "wait" /\ wait' # wait /\ wait'.last = "error")]_vars
  /\ [][(wait.pc = "flush" /\ wait'.ctl # wait.ctl)
          => ((wait'.pc = "abort") <=>
                ~(\/ wait'.ctl.e1 = "none"
                  \/ /\ wait'.ctl.e1 = "EEXIST"
                     /\ wait'.ctl.op = "EPOLL_CTL_ADD"
                     /\ wait'.ctl.e2 = "none"))]_vars

C34_Witness ==
  /\ wait.pc = "wait" /\ wait.last = "eintr" /\ wait.entry = MaxTimeout
  /\ wait.restarts = 1 /\ ~wait.dispatched
  /\ wait.ctl.op = "EPOLL_CTL_ADD" /\ wait.ctl.e1 = "EEXIST"

\* The least power of two that is >= n.
LeastPow2(n) ==
  CHOOSE p \in {2 ^ k : k \in 0..10} :
    p >= n /\ \A q \in {2 ^ k : k \in 0..10} : q >= n => p <= q

\* C35: a started watcher's fd is below nwatchers; the table never shrinks
\* and grows only in a uv__io_start on an fd f with f + 1 > nwatchers, to
\* next_pow2(f + 3) - 2 slots: the old entries are kept, the new slots are
\* NULL but for the one of f, and the two entries past the end are carried
\* over with the batch, so that a uv__io_close made later by a callback of
\* the same batch still removes the events of its fd from the batch.
C35_ResizeKeepsTable ==
  /\ [](\A w \in IoWatchers :
          io.ws[w].pevents # {} => io.ws[w].fd + 1 <= io.nwatchers)
  /\ [][/\ io'.nwatchers >= io.nwatchers
        /\ io'.nwatchers # io.nwatchers =>
             \E w \in IoWatchers :
               LET f == io.ws[w].fd
               IN /\ f + 1 > io.nwatchers
                  /\ io'.ws[w].pevents # {} /\ io.ws[w].pevents = {}
                  /\ io'.nwatchers = LeastPow2(f + 3) - 2
                  /\ Len(io'.watchers) = io'.nwatchers
                  /\ \A i \in 1..io'.nwatchers :
                       io'.watchers[i] =
                         IF i <= io.nwatchers THEN io.watchers[i]
                         ELSE IF i = f + 1 THEN w ELSE NULL
                  /\ io'.stash = io.stash /\ io'.batch = io.batch
        /\ \A w \in IoWatchers :
             (io.fail = "none" /\ io.in_cb /\ io.ws[w].fd # INVALID
                /\ io'.ws[w].fd = INVALID)
               => ~Has(io'.batch, io.ws[w].fd)]_vars

C35_Witness ==
  /\ io.fail = "none" /\ io.in_cb /\ io.grown /\ io.nwatchers = 6
  /\ io.closed # {} /\ io.batch # <<>>
  /\ \A i \in 1..Len(io.batch) : io.batch[i] = INVALID

\* C36: uv__io_close takes the watcher off pending_queue, and off the local
\* queue of a pending phase that is draining, so that the pending phase
\* never invokes the callback of a closed watcher; and after uv__io_close
\* the watcher has pevents = 0 and events = 0, is not in watcher_queue, and
\* no slot of the table holds it.
C36_CloseLeavesQueues ==
  /\ [](\A h \in Handles :
          uv__is_closing(World, h)
            => (~Has(loop.pending_queue, h) /\ ~Has(run.pq, h)))
  /\ [][(run.cb = "none" /\ run'.cb = "pending")
          => (~uv__is_closing(World, run'.cbh) /\ Head(run.pq) = run'.cbh)]_vars
  /\ [][\A w \in IoWatchers :
          (io.fail = "none" /\ io.ws[w].fd # INVALID /\ io'.ws[w].fd = INVALID)
            => /\ io'.fail \in {"none", "invalidate_fd:watchers"}
               /\ io'.ws[w].pevents = {} /\ io'.ws[w].events = {}
               /\ ~Has(io'.watcher_queue, w)
               /\ \A i \in 1..io'.nwatchers : io'.watchers[i] # w
               /\ io.ws[w].fd < io'.nwatchers
                    => io'.watchers[io.ws[w].fd + 1] = NULL]_vars

C36_Witness ==
  /\ abort = "none" /\ run.cb = "pending"
  /\ \E h \in Handles :
       /\ h # run.cbh /\ uv__is_closing(World, h)
       /\ gh.closedIn[h] = "pending"
       /\ Has(gh.pendStart, h) /\ gh.pendRan[h] = 0
       /\ Pos(gh.pendStart, run.cbh) < Pos(gh.pendStart, h)

\* C37: in the dispatch loop an event for an fd whose slot of the table is
\* NULL invokes no callback and is not counted in nevents; the fd is removed
\* from the epoll set with EPOLL_CTL_DEL, and when that call fails the step
\* changes nothing but its position in the batch.
C37_NullSlotEvent ==
  /\ [][(run.pc = "poll_dispatch" /\ run.cb = "none" /\ loop.batch # <<>>
           /\ Head(loop.batch) \in Handles
           /\ ~hs[Head(loop.batch)].io_started /\ run' # run)
          => /\ run'.cb = "none" /\ run'.nevents = run.nevents
             /\ loop'.batch = Tail(loop.batch)
             /\ hs' = hs /\ abort' = abort]_vars
  /\ [][(io.fail = "none" /\ io.batch # <<>> /\ ~io.in_cb
           /\ Head(io.batch) \in Fds /\ Slot(Head(io.batch)) = NULL
           /\ io'.batch # io.batch)
          => /\ io'.fail = "none" /\ ~io'.in_cb /\ io'.cb = NoIoCb
             /\ io'.batch = Tail(io.batch)
             /\ io'.del = (IF io.epoll[Head(io.batch)] # {} THEN "ok"
                           ELSE "ENOENT")
             /\ io'.epoll = [io.epoll EXCEPT ![Head(io.batch)] = {}]
             /\ io'.watchers = io.watchers /\ io'.nwatchers = io.nwatchers
             /\ io'.nfds = io.nfds /\ io'.ws = io.ws
             /\ io'.watcher_queue = io.watcher_queue]_vars

C37_Witness ==
  /\ io.fail = "none" /\ io.del = "ENOENT" /\ ~io.in_cb
  /\ io.nfds > 0 /\ io.batch # <<>>

C39_MaskAtDispatch ==
  [][(io.fail = "none" /\ io.batch # <<>> /\ ~io.in_cb
        /\ Head(io.batch) \in Fds /\ Slot(Head(io.batch)) # NULL
        /\ io'.batch # io.batch)
       => LET w == Slot(Head(io.batch))
              left == io'.reached.R \cap (io.ws[w].pevents \cup {POLLERR, POLLHUP})
          IN /\ io'.reached.fd = Head(io.batch)
             /\ io'.in_cb <=> left # {}
             /\ io'.nevents = io.nevents + (IF left # {} THEN 1 ELSE 0)
             /\ io'.in_cb =>
                  /\ io'.cb.w = w /\ left \subseteq io'.cb.mask
                  /\ io'.cb.mask \cap EventBits \subseteq io.ws[w].pevents
             /\ ~io'.in_cb => io'.cb = NoIoCb
             /\ io'.ws = io.ws /\ io'.epoll = io.epoll]_vars

C39_Witness ==
  /\ io.fail = "none" /\ ~io.in_cb /\ io.nevents = 1
  /\ io.reached.fd \in Fds /\ Slot(io.reached.fd) # NULL
  /\ LET w == Slot(io.reached.fd)
     IN /\ io.reached.R \cap io.ws[w].events # {}
        /\ io.reached.R \cap (io.ws[w].pevents \cup {POLLERR, POLLHUP}) = {}

\* C40: when loop->nfds is 0, watcher_queue is empty, so the assertion at
\* the entry of uv__io_poll never fails; and uv__io_poll then returns at
\* once whatever its timeout: it registers nothing, waits for nothing,
\* invokes no callback and does not update the loop's time.
C40_EmptyPollReturns ==
  /\ [](io.nfds = 0 => io.watcher_queue = <<>>)
  /\ [](io.fail # "io_poll:watcher_queue")
  /\ [][(io.fail = "none" /\ io.nfds = 0 /\ io.batch = <<>> /\ ~io.in_cb)
          => /\ io'.batch = <<>> /\ io'.ops = <<>> /\ ~io'.in_cb
             /\ \A fd \in Fds : io'.epoll[fd] \subseteq io.epoll[fd]]_vars
  /\ [][(run.pc = "poll" /\ run.cb = "none" /\ loop.nfds = 0 /\ run' # run)
          => /\ run'.pc = PhaseAfter("poll") /\ run'.cb = "none"
             /\ hs' = hs /\ loop' = loop /\ abort' = abort
             /\ gh'.cb_count = gh.cb_count]_vars

C40_Witness ==
  /\ abort = "none" /\ run.pc = PhaseAfter("poll") /\ run.cb = "none"
  /\ gh.trace # <<>> /\ Last(gh.trace) = "poll"
  /\ loop.nfds = 0 /\ uv_run_timeout(World) > 0

====
